---- MODULE Spec2Model ----
(***************************************************************************)
(* ClaudeToGo: the hook ingestion path, the event processor pipeline and   *)
(* the watcher service, modelled from the Go sources.                      *)
(*                                                                         *)
(* Go strings that the code inspects character by character (session ids,  *)
(* hook event names, timestamps) are sequences of one-character strings;   *)
(* file paths that are only opened are atoms.                              *)
(***************************************************************************)
EXTENDS Integers, Sequences, FiniteSets, TLC

(***************************************************************************)
(* Bounds of the model.                                                    *)
(***************************************************************************)
MaxLog == 2
MaxHook == 3
MaxTicks == 3
MaxLines == 3
MaxN == 3

(***************************************************************************)
(* Program constants.                                                      *)
(***************************************************************************)
SessionShortLen == 8

(***************************************************************************)
(* strings.TrimSpace and strings.ToLower on character sequences.           *)
(***************************************************************************)
IsSpace(c) == c \in {" ", "\t"}

RECURSIVE TrimLeft(_)
TrimLeft(s) == IF s # <<>> /\ IsSpace(Head(s)) THEN TrimLeft(Tail(s)) ELSE s

RECURSIVE TrimRight(_)
TrimRight(s) ==
    IF s # <<>> /\ IsSpace(s[Len(s)])
    THEN TrimRight(SubSeq(s, 1, Len(s) - 1))
    ELSE s

TrimSpace(s) == TrimRight(TrimLeft(s))

UpperLetters ==
    <<"A", "B", "C", "D", "E", "F", "G", "H", "I", "J", "K", "L", "M",
      "N", "O", "P", "Q", "R", "S", "T", "U", "V", "W", "X", "Y", "Z">>
LowerLetters ==
    <<"a", "b", "c", "d", "e", "f", "g", "h", "i", "j", "k", "l", "m",
      "n", "o", "p", "q", "r", "s", "t", "u", "v", "w", "x", "y", "z">>

ToLowerChar(c) ==
    IF \E i \in 1..26 : UpperLetters[i] = c
    THEN LowerLetters[CHOOSE i \in 1..26 : UpperLetters[i] = c]
    ELSE c

ToLower(s) == [i \in 1..Len(s) |-> ToLowerChar(s[i])]

ReplaceColons(s) == [i \in 1..Len(s) |-> IF s[i] = ":" THEN "-" ELSE s[i]]

\* strings.Contains, strings.HasPrefix and strings.Join(parts, " ")
Contains(s, sub) ==
    \E i \in 1..(Len(s) - Len(sub) + 1) : SubSeq(s, i, i + Len(sub) - 1) = sub

HasPrefix(s, prefix) ==
    Len(prefix) <= Len(s) /\ SubSeq(s, 1, Len(prefix)) = prefix

RECURSIVE JoinSpace(_)
JoinSpace(parts) ==
    IF parts = <<>> THEN <<>>
    ELSE IF Len(parts) = 1 THEN parts[1]
    ELSE parts[1] \o <<" ">> \o JoinSpace(Tail(parts))

\* the element of a one-element set: Only({e(x) : x \in {v}}) is e(v), the
\* way a local variable x := v is written so that v is computed once
Only(S) == CHOOSE x \in S : TRUE

(***************************************************************************)
(* State.                                                                  *)
(*   log, logExists      the event log file and whether it exists          *)
(*   pc                  where ServiceMode / EventWatcher.Start stands     *)
(*   lastFileSize, lastEventCount, lastProcessed   EventWatcher fields     *)
(*   now                 the clock read by time.Now(), one unit per tick   *)
(*   curSize, total      locals of checkForNewEvents across its reads      *)
(*   cancelled           ctx.Done() is closed                              *)
(*   statusFile          the .watcher-status file exists                   *)
(*   result              what ServiceMode returned                         *)
(*   tickErr             the last finished tick returned an error          *)
(*   handed              log positions handed to ProcessEventAndSave       *)
(*   written             output paths written, in order                    *)
(*   startEvents, startAbsent, statusWritten   history of the start        *)
(*   stdout              hook responses written to stdout                  *)
(*   call, ret           the last direct call and what it returned         *)
(*   tfile               the transcript file at path "t_var"               *)
(*   outFiles            the message files of the output directory         *)
(*   responses           the response files, by name                       *)
(*   answered            history: the message files a successful respond   *)
(*                       was given for since they were written             *)
(*   settings            the Claude settings.json file: whether it exists, *)
(*                       whether it parses, and its hooks field            *)
(*   monitor             the locals of the real-time monitor and the log   *)
(*                       positions it displayed, in order                  *)
(***************************************************************************)
VARIABLES log, logExists, pc, lastFileSize, lastEventCount, lastProcessed,
          now, curSize, total, cancelled, statusFile, result, tickErr,
          handed, written, startEvents, startAbsent, statusWritten,
          stdout, call, ret, tfile, outFiles, responses, answered,
          settings, monitor

vars == <<log, logExists, pc, lastFileSize, lastEventCount, lastProcessed,
          now, curSize, total, cancelled, statusFile, result, tickErr,
          handed, written, startEvents, startAbsent, statusWritten,
          stdout, call, ret, tfile, outFiles, responses, answered,
          settings, monitor>>

watcherFields == <<lastFileSize, lastEventCount, lastProcessed>>
tickLocals == <<curSize, total>>
outputs == <<handed, written>>
history == <<startEvents, startAbsent, statusWritten>>
direct == <<stdout, call, ret>>
disk == <<tfile, outFiles, responses, answered, settings, monitor>>

\* the locals of monitor.Start and checkForNewEvents before the call
NoMonitor ==
    [lastSize |-> 0, currentSize |-> 0, scanp |-> 0, err |-> "",
     displayed |-> <<>>, startLines |-> 0]

\* no settings.json
NoSettings == [exists |-> FALSE, valid |-> TRUE, hooks |-> <<>>]

(***************************************************************************)
(* Hook events (types.ClaudeHookEvent) and the strings used in the model.  *)
(***************************************************************************)
EmptyStr == <<>>
BlankStr == <<" ">>
SidA == <<"a", "1">>
SidB == <<"b", "2">>
NameStop == <<"S", "t", "o", "p">>
NameStopUpper == <<"S", "T", "O", "P">>
NameNotif == <<"N", "o", "t", "i", "f", "i", "c", "a", "t", "i", "o", "n">>
NameOther == <<"P", "r", "e">>
LowerStop == <<"s", "t", "o", "p">>
LowerNotif == <<"n", "o", "t", "i", "f", "i", "c", "a", "t", "i", "o", "n">>
Stamp1 == <<"1", ":", "0">>
CwdDefault == <<"/", "w">>

ClaudeHookEvent(sid, name, tpath, ts) ==
    [session_id |-> sid, hook_event_name |-> name,
     transcript_path |-> tpath, timestamp |-> ts, cwd |-> CwdDefault]

NoEvent == ClaudeHookEvent(EmptyStr, EmptyStr, "", EmptyStr)

(***************************************************************************)
(* Transcript files on disk.  A transcript is a sequence of lines; a line  *)
(* is blank, malformed, or one TranscriptMessage.  A message's content is  *)
(* a plain string (text) or a list of typed content items (items); uuid    *)
(* and parent are its UUID and ParentUUID, tokens its Usage.OutputTokens   *)
(* (0 also when Usage is absent).  A tool_use item's input is a map from   *)
(* keys to values.                                                         *)
(***************************************************************************)
NoInput == [k \in {} |-> EmptyStr]

TextDone == <<"d", "o", "n", "e">>
TextPlain == <<"h", "i">>
ToolWrite == <<"W", "r", "i", "t", "e">>

TextItemOf(txt) ==
    [type |-> "text", text |-> txt, id |-> EmptyStr, name |-> EmptyStr,
     input |-> NoInput]
ToolUseWith(n, input) ==
    [type |-> "tool_use", text |-> EmptyStr, id |-> <<"t", "u">>, name |-> n,
     input |-> input]

TextItem == TextItemOf(TextDone)
ToolUseItem(n) == ToolUseWith(n, NoInput)

MsgLine(t, c, its) ==
    [kind |-> "msg", type |-> t, content |-> c, items |-> its,
     text |-> IF c = "string" THEN TextPlain ELSE EmptyStr,
     uuid |-> "", parent |-> "", tokens |-> 0]
BadTLine ==
    [kind |-> "bad", type |-> "", content |-> "", items |-> <<>>,
     text |-> EmptyStr, uuid |-> "", parent |-> "", tokens |-> 0]
BlankTLine ==
    [kind |-> "blank", type |-> "", content |-> "", items |-> <<>>,
     text |-> EmptyStr, uuid |-> "", parent |-> "", tokens |-> 0]

UserMsg == MsgLine("user", "string", <<>>)
AssistantText == MsgLine("assistant", "list", <<TextItem>>)
AssistantTool ==
    MsgLine("assistant", "list", <<TextItem, ToolUseItem(ToolWrite)>>)

\* "t_var" is the transcript whose content is the state variable tfile
NoFile == [exists |-> FALSE, lines |-> <<>>]

TranscriptPaths == {"", "t_stop", "t_tool", "t_user", "t_bad", "t_gone"}

TranscriptExists(path) ==
    \/ path \in {"t_stop", "t_tool", "t_user", "t_bad"}
    \/ path = "t_var" /\ tfile.exists

TranscriptLines(path) ==
    CASE path = "t_stop" -> <<UserMsg, BlankTLine, AssistantText>>
      [] path = "t_tool" -> <<UserMsg, AssistantTool, AssistantText>>
      [] path = "t_user" -> <<UserMsg>>
      [] path = "t_bad" -> <<UserMsg, AssistantTool, BadTLine, AssistantText>>
      [] path = "t_var" -> tfile.lines
      [] OTHER -> <<>>

(***************************************************************************)
(* transcript.Reader                                                       *)
(***************************************************************************)
RECURSIVE ParseLinesSkipBad(_, _, _)
ParseLinesSkipBad(lines, i, acc) ==
    IF i > Len(lines) THEN [err |-> "", line |-> 0, messages |-> acc]
    ELSE ParseLinesSkipBad(lines, i + 1,
             IF lines[i].kind = "msg" THEN Append(acc, lines[i]) ELSE acc)

RECURSIVE ParseLinesFrom(_, _, _)
ParseLinesFrom(lines, i, acc) ==
    IF i > Len(lines) THEN [err |-> "", line |-> 0, messages |-> acc]
    ELSE IF lines[i].kind = "bad"
         THEN [err |-> "parse", line |-> i, messages |-> <<>>]
    ELSE ParseLinesFrom(lines, i + 1,
             IF lines[i].kind = "blank" THEN acc ELSE Append(acc, lines[i]))

ParseTranscriptFile(path) ==
    IF ~TranscriptExists(path)
    THEN [err |-> "not_exist", line |-> 0, messages |-> <<>>]
    ELSE ParseLinesFrom(TranscriptLines(path), 1, <<>>)

hasToolUse(message) ==
    /\ message.content = "list"
    /\ \E k \in 1..Len(message.items) : message.items[k].type = "tool_use"

IsAssistant(m) == m.type = "assistant"
IsAssistantToolUse(m) == m.type = "assistant" /\ hasToolUse(m)

\* the backward scans: index of the last matching message, 0 when none
LastAssistantIndex(messages) ==
    LET S == {i \in 1..Len(messages) : IsAssistant(messages[i])}
    IN  IF S = {} THEN 0 ELSE CHOOSE i \in S : \A j \in S : j <= i

LastToolUseIndex(messages) ==
    LET S == {i \in 1..Len(messages) : IsAssistantToolUse(messages[i])}
    IN  IF S = {} THEN 0 ELSE CHOOSE i \in S : \A j \in S : j <= i

NoMessage == BlankTLine

\* the message at index i of the parsed file p, or the error noneErr
MessageAt(p, i, noneErr) ==
    IF p.err # "" THEN [err |-> p.err, idx |-> 0, msg |-> NoMessage]
    ELSE IF i = 0 THEN [err |-> noneErr, idx |-> 0, msg |-> NoMessage]
    ELSE [err |-> "", idx |-> i, msg |-> p.messages[i]]

GetLastAssistantMessage(path) ==
    Only({MessageAt(p, LastAssistantIndex(p.messages), "no_assistant") :
              p \in {ParseTranscriptFile(path)}})

GetLastToolUse(path) ==
    Only({MessageAt(p, LastToolUseIndex(p.messages), "no_tool_use") :
              p \in {ParseTranscriptFile(path)}})

\* the text items of a list content, in order
IsTextItem(it) == it.type = "text"
IsToolUseItem(it) == it.type = "tool_use"

ExtractTextContent(message) ==
    IF message.content = "string" THEN message.text
    ELSE LET sel == SelectSeq(message.items, IsTextItem)
         IN  JoinSpace([k \in 1..Len(sel) |-> sel[k].text])

\* the first tool_use item of the message
ExtractToolUseDetailsLast(message) ==
    LET sel == IF message.content = "list"
               THEN SelectSeq(message.items, IsToolUseItem) ELSE <<>>
    IN  IF message.content = "string"
        THEN [err |-> "user messages don't contain tool_use content",
              item |-> ToolUseWith(EmptyStr, NoInput)]
        ELSE IF sel = <<>>
        THEN [err |-> "no tool_use content found in message",
              item |-> ToolUseWith(EmptyStr, NoInput)]
        ELSE [err |-> "", item |-> sel[Len(sel)]]

ExtractToolUseDetails(message) ==
    LET sel == IF message.content = "list"
               THEN SelectSeq(message.items, IsToolUseItem) ELSE <<>>
    IN  IF message.content = "string"
        THEN [err |-> "user messages don't contain tool_use content",
              item |-> ToolUseWith(EmptyStr, NoInput)]
        ELSE IF sel = <<>>
        THEN [err |-> "no tool_use content found in message",
              item |-> ToolUseWith(EmptyStr, NoInput)]
        ELSE [err |-> "", item |-> sel[1]]

\* the last maxMessages messages
GetConversationContext(path, maxMessages) ==
    LET p == ParseTranscriptFile(path)
        n == Len(p.messages)
        start == IF n > maxMessages THEN n - maxMessages ELSE 0
    IN  IF p.err # "" THEN [err |-> p.err, messages |-> <<>>]
        ELSE [err |-> "", messages |-> SubSeq(p.messages, start + 1, n)]

\* messageMap: the message stored under a UUID is the last one carrying it
MessageMapHas(messages, u) == \E i \in 1..Len(messages) : messages[i].uuid = u
MessageMapGet(messages, u) ==
    messages[CHOOSE i \in 1..Len(messages) :
                 /\ messages[i].uuid = u
                 /\ \A j \in 1..Len(messages) : messages[j].uuid = u => j <= i]

\* the loop of GetMessageChain: follow ParentUUID from currentUUID, each
\* message found is put in front of the chain.  (The walk ends because the
\* transcripts of the model have no cycle of parent links.)
RECURSIVE FollowChainNoPrepend(_, _, _)
FollowChainNoPrepend(messages, currentUUID, chain) ==
    IF currentUUID = "" \/ ~MessageMapHas(messages, currentUUID)
    THEN chain
    ELSE FollowChainNoPrepend(messages,
             MessageMapGet(messages, currentUUID).parent,
             Append(chain, MessageMapGet(messages, currentUUID)))

RECURSIVE FollowChain(_, _, _)
FollowChain(messages, currentUUID, chain) ==
    IF currentUUID = "" \/ ~MessageMapHas(messages, currentUUID)
    THEN chain
    ELSE FollowChain(messages,
             MessageMapGet(messages, currentUUID).parent,
             <<MessageMapGet(messages, currentUUID)>> \o chain)

GetMessageChain(path, startUUID) ==
    LET p == ParseTranscriptFile(path)
    IN  IF p.err # "" THEN [err |-> p.err, chain |-> <<>>]
        ELSE [err |-> "", chain |-> FollowChain(p.messages, startUUID, <<>>)]

(***************************************************************************)
(* hooks.Validate                                                          *)
(***************************************************************************)
ValidateSessionOnly(event) ==
    IF TrimSpace(event.session_id) = EmptyStr THEN "session_id is required"
    ELSE ""

Validate(event) ==
    IF TrimSpace(event.session_id) = EmptyStr THEN "session_id is required"
    ELSE IF TrimSpace(event.hook_event_name) = EmptyStr
         THEN "hook_event_name is required"
    ELSE ""

(***************************************************************************)
(* Go maps (map[string]interface{}) are functions from keys to values.     *)
(***************************************************************************)
MapPut(m, k, v) == [x \in DOMAIN m \cup {k} |-> IF x = k THEN v ELSE m[x]]

\* for key, value := range over { m[key] = value }
MapMerge(m, over) ==
    [x \in DOMAIN m \cup DOMAIN over |->
        IF x \in DOMAIN over THEN over[x] ELSE m[x]]

\* if v, exists := src[from]; exists { m[to] = v }
MapPutIf(m, src, from, to) ==
    IF from \in DOMAIN src THEN MapPut(m, to, src[from]) ELSE m

(***************************************************************************)
(* extractor.DataExtractor.  The result records the error ("" for nil),    *)
(* how many times the transcript file was touched before the result was    *)
(* returned, and the ExtractedData: event type, session id, working        *)
(* directory, timestamp and the Stop or Notification payload.              *)
(***************************************************************************)
KwError == <<"e", "r", "r", "o", "r">>
KwFailed == <<"f", "a", "i", "l", "e", "d">>
KwCannot == <<"c", "a", "n", "n", "o", "t">>
KwUnable == <<"u", "n", "a", "b", "l", "e">>
KwCompleted == <<"c", "o", "m", "p", "l", "e", "t", "e", "d">>
KwDone == <<"d", "o", "n", "e">>
KwFinished == <<"f", "i", "n", "i", "s", "h", "e", "d">>
KwCreated == <<"c", "r", "e", "a", "t", "e", "d">>
KwUpdated == <<"u", "p", "d", "a", "t", "e", "d">>
KwSuccessfully ==
    <<"s", "u", "c", "c", "e", "s", "s", "f", "u", "l", "l", "y">>
StatusCompleted == <<"c", "o", "m", "p", "l", "e", "t", "e", "d">>
StatusError == <<"e", "r", "r", "o", "r">>
StatusCancelled == <<"c", "a", "n", "c", "e", "l", "l", "e", "d">>
NoTextResponse ==
    <<"T", "a", "s", "k", " ", "c", "o", "m", "p", "l", "e", "t", "e", "d",
      " ", "(", "n", "o", " ", "t", "e", "x", "t", " ", "r", "e", "s", "p",
      "o", "n", "s", "e", ")">>
ToolUnknown == <<"U", "n", "k", "n", "o", "w", "n">>
LowerWrite == <<"w", "r", "i", "t", "e">>
LowerRead == <<"r", "e", "a", "d">>
LowerEdit == <<"e", "d", "i", "t">>
LowerWebfetch == <<"w", "e", "b", "f", "e", "t", "c", "h">>
LowerFetch == <<"f", "e", "t", "c", "h">>
LowerBash == <<"b", "a", "s", "h">>
LowerList == <<"l", "i", "s", "t">>
LowerLs == <<"l", "s">>
ActCreateFile == <<"c", "r", "e", "a", "t", "e", "_", "f", "i", "l", "e">>
ActReadFile == <<"r", "e", "a", "d", "_", "f", "i", "l", "e">>
ActEditFile == <<"e", "d", "i", "t", "_", "f", "i", "l", "e">>
ActFetchUrl == <<"f", "e", "t", "c", "h", "_", "u", "r", "l">>
ActExecuteCommand ==
    <<"e", "x", "e", "c", "u", "t", "e", "_", "c", "o", "m", "m", "a", "n",
      "d">>
ActListDirectory ==
    <<"l", "i", "s", "t", "_", "d", "i", "r", "e", "c", "t", "o", "r", "y">>
ActUseTool == <<"u", "s", "e", "_", "t", "o", "o", "l">>
NowRFC3339 == <<"n", "o", "w">>

ErrorKeywords == {KwError, KwFailed, KwCannot, KwUnable}
CompletionKeywords ==
    {KwCompleted, KwDone, KwFinished, KwCreated, KwUpdated, KwSuccessfully}

determineTaskStatusCompletionFirst(finalMessage, message) ==
    LET lowerMsg == ToLower(finalMessage)
    IN  IF \E k \in CompletionKeywords : Contains(lowerMsg, k)
        THEN StatusCompleted
        ELSE IF \E k \in ErrorKeywords : Contains(lowerMsg, k)
        THEN StatusError
        ELSE StatusCompleted

determineTaskStatus(finalMessage, message) ==
    LET lowerMsg == ToLower(finalMessage)
    IN  IF \E k \in ErrorKeywords : Contains(lowerMsg, k)
        THEN StatusError
        ELSE IF \E k \in CompletionKeywords : Contains(lowerMsg, k)
        THEN StatusCompleted
        ELSE IF message.tokens > 0 THEN StatusCompleted
        ELSE StatusCompleted

getActionForTool(toolName) ==
    LET l == ToLower(toolName)
    IN  CASE l = LowerWrite -> ActCreateFile
          [] l = LowerRead -> ActReadFile
          [] l = LowerEdit -> ActEditFile
          [] l \in {LowerWebfetch, LowerFetch} -> ActFetchUrl
          [] l = LowerBash -> ActExecuteCommand
          [] l \in {LowerList, LowerLs} -> ActListDirectory
          [] OTHER -> ActUseTool

\* the values of the model are short, so the previews are never truncated
processWriteTool(toolUse, data) ==
    [data EXCEPT
        !.Action = ActCreateFile,
        !.Details = MapPutIf(MapPutIf(@, toolUse.input, "file_path",
                                      "target_file"),
                             toolUse.input, "content", "content_preview")]

processReadTool(toolUse, data) ==
    [data EXCEPT
        !.Action = ActReadFile,
        !.Details = MapPutIf(@, toolUse.input, "file_path", "target_file")]

processWebFetchTool(toolUse, data) ==
    [data EXCEPT
        !.Action = ActFetchUrl,
        !.Details = MapPutIf(MapPutIf(@, toolUse.input, "url", "target_url"),
                             toolUse.input, "prompt", "fetch_prompt")]

processBashTool(toolUse, data) ==
    [data EXCEPT
        !.Action = ActExecuteCommand,
        !.Details = MapPutIf(MapPutIf(@, toolUse.input, "command", "command"),
                             toolUse.input, "description",
                             "command_description")]

processEditTool(toolUse, data) ==
    [data EXCEPT
        !.Action = ActEditFile,
        !.Details = MapPutIf(MapPutIf(MapPutIf(@, toolUse.input, "file_path",
                                               "target_file"),
                                      toolUse.input, "old_string",
                                      "old_string_preview"),
                             toolUse.input, "new_string",
                             "new_string_preview")]

processListTool(toolUse, data) ==
    [data EXCEPT
        !.Action = ActListDirectory,
        !.Details = MapPutIf(@, toolUse.input, "path", "target_path")]

processGenericTool(toolUse, data) ==
    [data EXCEPT
        !.Action = ActUseTool,
        !.Details = MapPut(@, "tool_id", toolUse.id)]

processToolUse(toolUse, event) ==
    LET toolName == IF toolUse.name = EmptyStr THEN ToolUnknown
                    ELSE toolUse.name
        base == [kind |-> "notification", ToolName |-> toolName,
                 Action |-> getActionForTool(toolName),
                 Details |-> MapMerge(NoInput, toolUse.input)]
        l == ToLower(toolName)
    IN  CASE l = LowerWrite -> processWriteTool(toolUse, base)
          [] l = LowerRead -> processReadTool(toolUse, base)
          [] l \in {LowerWebfetch, LowerFetch} ->
                 processWebFetchTool(toolUse, base)
          [] l = LowerBash -> processBashTool(toolUse, base)
          [] l = LowerEdit -> processEditTool(toolUse, base)
          [] l \in {LowerList, LowerLs} -> processListTool(toolUse, base)
          [] OTHER -> processGenericTool(toolUse, base)

NoData == [kind |-> "none"]

\* timestamp := event.Timestamp, or the current time when that is empty
TimestampOf(event) ==
    IF event.timestamp = EmptyStr THEN NowRFC3339 ELSE event.timestamp

ExtractFailed(err, reads, event) ==
    [err |-> err, reads |-> reads, eventType |-> "",
     session_id |-> event.session_id, cwd |-> event.cwd,
     timestamp |-> EmptyStr, data |-> NoData]

Extracted(eventType, event, data) ==
    [err |-> "", reads |-> 1, eventType |-> eventType,
     session_id |-> event.session_id, cwd |-> event.cwd,
     timestamp |-> TimestampOf(event), data |-> data]

\* the final message of a Stop: the text, or the placeholder when empty
FinalMessageOf(message) ==
    Only({IF text = EmptyStr THEN NoTextResponse ELSE text :
              text \in {ExtractTextContent(message)}})

StopEventData(message) ==
    Only({[kind |-> "stop", FinalMessage |-> finalMessage,
           TaskStatus |-> determineTaskStatus(finalMessage, message)] :
              finalMessage \in {FinalMessageOf(message)}})

ProcessStopEvent(event) ==
    Only({IF m.err # "" THEN ExtractFailed(m.err, 1, event)
          ELSE Extracted("stop", event, StopEventData(m.msg)) :
              m \in {GetLastAssistantMessage(event.transcript_path)}})

\* the part of ProcessNotificationEvent after the last tool use m is found
NotificationOf(m, event) ==
    Only({IF t.err # "" THEN ExtractFailed(t.err, 1, event)
          ELSE Extracted("notification", event,
                         processToolUse(t.item, event)) :
              t \in {ExtractToolUseDetails(m.msg)}})

ProcessNotificationEvent(event) ==
    Only({IF m.err # "" THEN ExtractFailed(m.err, 1, event)
          ELSE NotificationOf(m, event) :
              m \in {GetLastToolUse(event.transcript_path)}})

ExtractorProcessEvent(event) ==
    CASE ToLower(event.hook_event_name) = LowerStop -> ProcessStopEvent(event)
      [] ToLower(event.hook_event_name) = LowerNotif ->
             ProcessNotificationEvent(event)
      [] OTHER -> ExtractFailed("unknown hook event type", 0, event)

(***************************************************************************)
(* formatter.MessengerFormatter.  A MessengerMessage is its type, session  *)
(* id, title, priority, ordered SuggestedActions and context map; err is   *)
(* the error returned instead ("" for nil).                                *)
(***************************************************************************)
SuggestedAction(type, label, command) ==
    [Type |-> type, Label |-> label, Command |-> command]

\* the command line "claudetogo <verb> --session <id> [--action <action>]"
Command(verb, sessionID, action) ==
    [verb |-> verb, session |-> sessionID, action |-> action]

FormatFailed(err, data) ==
    [err |-> err, type |-> "", session_id |-> data.session_id,
     title |-> "", priority |-> "", actions |-> <<>>, context |-> NoInput,
     timestamp |-> data.timestamp]

createStopEventActions(data) ==
    <<SuggestedAction("info", "View Details",
                      Command("status", data.session_id, ""))>>

createErrorEventActions(data) ==
    <<SuggestedAction("info", "Debug", Command("debug", data.session_id, "")),
      SuggestedAction("info", "View Log", Command("log", data.session_id, ""))>>

StopTitle(status) ==
    CASE status = StatusCompleted -> "Task Completed"
      [] status = StatusError -> "Task Failed"
      [] status = StatusCancelled -> "Task Cancelled"
      [] OTHER -> "Task Finished"

StopPriority(status) ==
    CASE status = StatusCompleted -> "medium"
      [] status = StatusError -> "high"
      [] status = StatusCancelled -> "low"
      [] OTHER -> "medium"

StopContext(data) ==
    [k \in {"cwd", "task_status", "session_id"} |->
        CASE k = "cwd" -> data.cwd
          [] k = "task_status" -> data.data.TaskStatus
          [] OTHER -> data.session_id]

formatStopEventInfoByDefault(data) ==
    IF data.data.kind # "stop"
    THEN FormatFailed("invalid stop event data type", data)
    ELSE [err |-> "", type |-> "completion", session_id |-> data.session_id,
          title |-> StopTitle(data.data.TaskStatus),
          priority |-> StopPriority(data.data.TaskStatus),
          actions |-> IF data.data.TaskStatus = StatusError
                      THEN createErrorEventActions(data)
                      ELSE IF data.data.TaskStatus = StatusCancelled
                      THEN <<>>
                      ELSE createStopEventActions(data),
          context |-> StopContext(data),
          timestamp |-> data.timestamp]

formatStopEvent(data) ==
    IF data.data.kind # "stop"
    THEN FormatFailed("invalid stop event data type", data)
    ELSE [err |-> "", type |-> "completion", session_id |-> data.session_id,
          title |-> StopTitle(data.data.TaskStatus),
          priority |-> StopPriority(data.data.TaskStatus),
          actions |-> IF data.data.TaskStatus = StatusCompleted
                      THEN createStopEventActions(data)
                      ELSE IF data.data.TaskStatus = StatusError
                      THEN createErrorEventActions(data)
                      ELSE <<>>,
          context |-> StopContext(data),
          timestamp |-> data.timestamp]

getNotificationTitle(notificationData) ==
    LET l == ToLower(notificationData.ToolName)
    IN  CASE l = LowerWrite -> "File Creation Request"
          [] l = LowerEdit -> "File Edit Request"
          [] l = LowerRead -> "File Read Request"
          [] l \in {LowerWebfetch, LowerFetch} -> "Web Fetch Request"
          [] l = LowerBash -> "Command Execution Request"
          [] l \in {LowerList, LowerLs} -> "Directory List Request"
          [] OTHER -> "Tool Request"

\* approve and reject, the tool-specific action, then the general info
ToolSpecificActionsCaseSensitive(notificationData, sessionID) ==
    LET l == notificationData.ToolName
    IN  CASE l \in {LowerWrite, LowerEdit} ->
                 <<SuggestedAction("modify", "Review File",
                                   Command("cat", sessionID, ""))>>
          [] l = LowerBash ->
                 <<SuggestedAction("info", "Command Info",
                                   Command("man", sessionID, ""))>>
          [] OTHER -> <<>>

ToolSpecificActions(notificationData, sessionID) ==
    LET l == ToLower(notificationData.ToolName)
    IN  CASE l \in {LowerWrite, LowerEdit} ->
                 <<SuggestedAction("modify", "Review File",
                                   Command("cat", sessionID, ""))>>
          [] l = LowerBash ->
                 <<SuggestedAction("info", "Command Info",
                                   Command("man", sessionID, ""))>>
          [] OTHER -> <<>>

createNotificationActionsNoReject(notificationData, extractedData) ==
    <<SuggestedAction("approve", "Approve",
                      Command("respond", extractedData.session_id, "approve"))>>
    \o ToolSpecificActions(notificationData, extractedData.session_id)
    \o <<SuggestedAction("info", "More Info",
                         Command("info", extractedData.session_id, ""))>>

createNotificationActions(notificationData, extractedData) ==
    <<SuggestedAction("approve", "Approve",
                      Command("respond", extractedData.session_id, "approve")),
      SuggestedAction("reject", "Reject",
                      Command("respond", extractedData.session_id, "reject"))>>
    \o ToolSpecificActions(notificationData, extractedData.session_id)
    \o <<SuggestedAction("info", "More Info",
                         Command("info", extractedData.session_id, ""))>>

NotificationContext(data) ==
    [k \in {"cwd", "tool_name", "action", "session_id"} |->
        CASE k = "cwd" -> data.cwd
          [] k = "tool_name" -> data.data.ToolName
          [] k = "action" -> data.data.Action
          [] OTHER -> data.session_id]

formatNotificationEvent(data) ==
    IF data.data.kind # "notification"
    THEN FormatFailed("invalid notification event data type", data)
    ELSE [err |-> "", type |-> "action_needed",
          session_id |-> data.session_id,
          title |-> getNotificationTitle(data.data),
          priority |-> "high",
          actions |-> createNotificationActions(data.data, data),
          context |-> MapMerge(NotificationContext(data), data.data.Details),
          timestamp |-> data.timestamp]

FormatForMessenger(data) ==
    CASE data.eventType = "stop" -> formatStopEvent(data)
      [] data.eventType = "notification" -> formatNotificationEvent(data)
      [] OTHER -> FormatFailed("unknown event type", data)

\* filepath.Base
RECURSIVE StripTrailingSlashes(_)
StripTrailingSlashes(s) ==
    IF s # <<>> /\ s[Len(s)] = "/"
    THEN StripTrailingSlashes(SubSeq(s, 1, Len(s) - 1))
    ELSE s

Base(path) ==
    LET t == StripTrailingSlashes(path)
        S == {i \in 1..Len(t) : t[i] = "/"}
    IN  IF path = EmptyStr THEN <<".">>
        ELSE IF t = EmptyStr THEN <<"/">>
        ELSE IF S = {} THEN t
        ELSE SubSeq(t, (CHOOSE i \in S : \A j \in S : j <= i) + 1, Len(t))

QuickHints(data) ==
    [k \in {"quick_approve", "quick_reject"} |->
        IF k = "quick_approve"
        THEN Command("respond", data.session_id, "approve")
        ELSE Command("respond", data.session_id, "reject")]

\* the context of the formatted message with the metadata added
EnhancedContext(message, data) ==
    MapPut(MapPut(message.context, "formatted_at", data.timestamp),
           "cwd_basename", Base(data.cwd))

CreateActionableMessage(data) ==
    Only({IF message.err # "" THEN message
          ELSE [message EXCEPT !.context =
                   IF data.eventType = "notification"
                   THEN MapMerge(EnhancedContext(message, data),
                                 QuickHints(data))
                   ELSE EnhancedContext(message, data)] :
              message \in {FormatForMessenger(data)}})

(***************************************************************************)
(* claude: the hooks of settings.json.  The hooks field maps a hook type   *)
(* to its matchers in order; a matcher is its pattern and its hooks in     *)
(* order; a hook is its type, command and timeout (0 for none).            *)
(***************************************************************************)
StrClaudetogo ==
    <<"c", "l", "a", "u", "d", "e", "t", "o", "g", "o">>
StrHookFlag == <<"-", "-", "h", "o", "o", "k">>

IsClaudeToGoHook(command) ==
    Contains(command, StrClaudetogo) /\ Contains(command, StrHookFlag)

HookConfig(command, timeout) ==
    [Type |-> "command", Command |-> command, Timeout |-> timeout]
HookMatcher(matcher, hooks) == [Matcher |-> matcher, Hooks |-> hooks]

IsPreservedHook(hook) == ~IsClaudeToGoHook(hook.Command)
HasPreservedHooks(matcher) == Len(matcher.Hooks) > 0

\* the inner loops of CleanupAllClaudeToGoHooks for one hook type
preservedHooks(matcher) == SelectSeq(matcher.Hooks, IsPreservedHook)

updatedMatchers(matchers) ==
    SelectSeq([i \in 1..Len(matchers) |->
                  HookMatcher(matchers[i].Matcher,
                              preservedHooks(matchers[i]))],
              HasPreservedHooks)

hasNoClaudeToGoHooks(matchers) ==
    \A i \in 1..Len(matchers) :
        \A j \in 1..Len(matchers[i].Hooks) :
            ~IsClaudeToGoHook(matchers[i].Hooks[j].Command)

hasNonClaudeToGoHooks(matchers) ==
    \E i \in 1..Len(matchers) :
        \E j \in 1..Len(matchers[i].Hooks) :
            ~IsClaudeToGoHook(matchers[i].Hooks[j].Command)

CleanupAllClaudeToGoHooks(hooks) ==
    [hookName \in {n \in DOMAIN hooks : hasNonClaudeToGoHooks(hooks[n])} |->
        updatedMatchers(hooks[hookName])]

StrVerboseFlag == <<" ", "-", "-", "v", "e", "r", "b", "o", "s", "e">>

StrLogfileFlag ==
    <<" ", "-", "-", "l", "o", "g", "f", "i", "l", "e", " ", "\"">>
StrDefaultLog ==
    <<"c", "l", "a", "u", "d", "e", "-", "e", "v", "e", "n", "t", "s", ".",
      "j", "s", "o", "n", "l">>

ConfigFile(logFile, verbose) == [LogFile |-> logFile, Verbose |-> verbose]

\* execPath is what os.Executable() returned, "./claudetogo" on its error
BuildClaudeToGoCommand(config, execPath) ==
    execPath \o <<" ">> \o StrHookFlag
    \o (IF config.LogFile # StrDefaultLog
        THEN StrLogfileFlag \o config.LogFile \o <<"\"">>
        ELSE <<>>)
    \o (IF config.Verbose THEN StrVerboseFlag ELSE <<>>)

IsWildcard(matcher) == matcher.Matcher = "*"

UpdateHookType(existingMatchers, newCommand, timeout) ==
    IF \E i \in 1..Len(existingMatchers) : IsWildcard(existingMatchers[i])
    THEN [i \in 1..Len(existingMatchers) |->
             IF IsWildcard(existingMatchers[i])
             THEN HookMatcher(existingMatchers[i].Matcher,
                      Append(existingMatchers[i].Hooks,
                             HookConfig(newCommand, timeout)))
             ELSE existingMatchers[i]]
    ELSE Append(existingMatchers,
                HookMatcher("*", <<HookConfig(newCommand, timeout)>>))

\* settingsConfig.Hooks[hookType], nil when the type is absent
MatchersOf(hooks, hookType) ==
    IF hookType \in DOMAIN hooks THEN hooks[hookType] ELSE <<>>

HookTimeout == 30

\* the hooks ConfigureHooksAtLocation saves: the cleanup, then the new hook
\* added to Stop and to Notification
ConfiguredHooks(hooks, newCommand) ==
    Only({MapPut(MapPut(cleaned, "Stop",
                        UpdateHookType(MatchersOf(cleaned, "Stop"),
                                       newCommand, HookTimeout)),
                 "Notification",
                 UpdateHookType(MatchersOf(cleaned, "Notification"),
                                newCommand, HookTimeout)) :
              cleaned \in {CleanupAllClaudeToGoHooks(hooks)}})

(***************************************************************************)
(* processor.EventProcessor                                                *)
(***************************************************************************)
\* the log file: a sequence of lines, each blank, malformed or one event
EventLine(ev) == [kind |-> "event", ev |-> ev]
BadLine == [kind |-> "bad", ev |-> NoEvent]
BlankLine == [kind |-> "blank", ev |-> NoEvent]

LineSize(l) == IF l.kind = "event" THEN 2 ELSE 1

RECURSIVE FileSize(_)
FileSize(lines) ==
    IF lines = <<>> THEN 0 ELSE LineSize(Head(lines)) + FileSize(Tail(lines))

IsEventLine(l) == l.kind = "event"

\* the events a successful read returns, in file order
ParsedEvents(lines) ==
    LET sel == SelectSeq(lines, IsEventLine)
    IN  [i \in 1..Len(sel) |-> sel[i].ev]

readEventsFromFile(exists, readOK, lines) ==
    IF ~exists THEN [err |-> "events file does not exist", events |-> <<>>]
    ELSE IF ~readOK THEN [err |-> "read", events |-> <<>>]
    ELSE [err |-> "", events |-> ParsedEvents(lines)]

NowStamp(nowv) == <<"T", ToString(nowv)>>

generateFileName(event, nowv) ==
    [kind |-> ToLower(event.hook_event_name),
     short |-> IF Len(event.session_id) > SessionShortLen
               THEN SubSeq(event.session_id, 1, SessionShortLen)
               ELSE event.session_id,
     stamp |-> IF event.timestamp = EmptyStr
               THEN NowStamp(nowv)
               ELSE ReplaceColons(event.timestamp)]

NoPath == [kind |-> EmptyStr, short |-> EmptyStr, stamp |-> EmptyStr]

\* the part of ProcessEvent after the extraction x succeeded
FormatExtracted(x) ==
    Only({[err |-> m.err, type |-> m.type, reads |-> x.reads, data |-> x,
           message |-> m] : m \in {CreateActionableMessage(x)}})

ProcessEvent(event) ==
    Only({IF x.err # ""
          THEN [err |-> x.err, type |-> "", reads |-> x.reads, data |-> x,
                message |-> FormatFailed(x.err, x)]
          ELSE FormatExtracted(x) : x \in {ExtractorProcessEvent(event)}})

ProcessEventAndSave(event, saveOK, nowv) ==
    Only({IF m.err # "" THEN [err |-> m.err, path |-> NoPath]
          ELSE IF ~saveOK THEN [err |-> "save", path |-> NoPath]
          ELSE [err |-> "", path |-> generateFileName(event, nowv)] :
              m \in {ProcessEvent(event)}})

\* the batch loop shared by ProcessEventsFromFile and ProcessLatestEvents:
\* events i..Len(events) are attempted in order, a failure is skipped
LoopStep(acc, i, r) ==
    [err |-> acc.err,
     attempted |-> Append(acc.attempted, i),
     paths |-> IF r.err # "" THEN acc.paths ELSE Append(acc.paths, r.path)]

RECURSIVE ProcessEachFailFast(_, _, _, _, _)
ProcessEachFailFast(events, i, saveFail, nowv, acc) ==
    IF i > Len(events) THEN acc
    ELSE Only({ProcessEachFailFast(events,
                   IF r.err # "" THEN Len(events) + 1 ELSE i + 1,
                   saveFail, nowv, LoopStep(acc, i, r)) :
               r \in {ProcessEventAndSave(events[i], i \notin saveFail,
                                          nowv)}})

RECURSIVE ProcessEach(_, _, _, _, _)
ProcessEach(events, i, saveFail, nowv, acc) ==
    IF i > Len(events) THEN acc
    ELSE ProcessEach(events, i + 1, saveFail, nowv,
             LoopStep(acc, i,
                      ProcessEventAndSave(events[i], i \notin saveFail, nowv)))

EmptyBatch == [err |-> "", attempted |-> <<>>, paths |-> <<>>]

ProcessEventsFromFile(exists, readOK, lines, saveFail, nowv) ==
    LET rd == readEventsFromFile(exists, readOK, lines)
    IN  IF rd.err # "" THEN [EmptyBatch EXCEPT !.err = rd.err]
        ELSE ProcessEach(rd.events, 1, saveFail, nowv, EmptyBatch)

LatestStartFromFront(len, maxEvents) == 0

LatestStart(len, maxEvents) ==
    IF len > maxEvents THEN len - maxEvents ELSE 0

ProcessLatestEvents(exists, readOK, lines, maxEvents, saveFail, nowv) ==
    LET rd == readEventsFromFile(exists, readOK, lines)
        start == LatestStart(Len(rd.events), maxEvents)
    IN  IF rd.err # "" THEN [EmptyBatch EXCEPT !.err = rd.err]
        ELSE ProcessEach(rd.events, start + 1, saveFail, nowv, EmptyBatch)

GetProcessingStats(exists, readOK, lines) ==
    LET rd == readEventsFromFile(exists, readOK, lines)
    IN  [err |-> rd.err, TotalEvents |-> Len(rd.events)]

NoCall == [op |-> "none", ev |-> NoEvent]
NoRet == [err |-> ""]

EvGood == ClaudeHookEvent(SidA, NameStop, "t_stop", Stamp1)
EvTool == ClaudeHookEvent(SidB, NameNotif, "t_tool", EmptyStr)
EvGone == ClaudeHookEvent(SidA, NameNotif, "t_gone", Stamp1)

\* what the external writer appends while the watcher runs
WriterLines == {EventLine(EvGood), EventLine(EvGone), BadLine}

Range(a, b) == [k \in 1..(b - a + 1) |-> a + k - 1]

NumEvents(lines) == Len(ParsedEvents(lines))

Init ==
    /\ log = <<>>
    /\ logExists = FALSE
    /\ pc = "new"
    /\ lastFileSize = 0
    /\ lastEventCount = 0
    /\ lastProcessed = 0
    /\ now = 0
    /\ curSize = 0
    /\ total = 0
    /\ cancelled = FALSE
    /\ statusFile = FALSE
    /\ result = "none"
    /\ tickErr = FALSE
    /\ handed = <<>>
    /\ written = <<>>
    /\ startEvents = 0
    /\ startAbsent = FALSE
    /\ statusWritten = FALSE
    /\ stdout = 0
    /\ call = NoCall
    /\ ret = NoRet
    /\ tfile = NoFile
    /\ outFiles = {}
    /\ responses = {}
    /\ answered = {}
    /\ monitor = NoMonitor
    /\ settings = NoSettings

(***************************************************************************)
(* The external writer: the hook process creates the log and appends to    *)
(* it; the log is append-only.                                             *)
(***************************************************************************)
ExternalCreate ==
    /\ ~logExists
    /\ logExists' = TRUE
    /\ UNCHANGED <<log, pc, watcherFields, now, tickLocals, cancelled,
                   statusFile, result, tickErr, outputs, history, direct, disk>>

ExternalAppend ==
    /\ logExists
    /\ Len(log) < MaxLog
    /\ \E l \in WriterLines : log' = Append(log, l)
    /\ UNCHANGED <<logExists, pc, watcherFields, now, tickLocals, cancelled,
                   statusFile, result, tickErr, outputs, history, direct, disk>>

\* the shutdown signal closes ctx.Done()
Cancel ==
    /\ ~cancelled
    /\ pc # "returned"
    /\ cancelled' = TRUE
    /\ UNCHANGED <<log, logExists, pc, watcherFields, now, tickLocals,
                   statusFile, result, tickErr, outputs, history, direct, disk>>

(***************************************************************************)
(* service.ServiceMode up to the call of Start: the output directory is    *)
(* created and the status file is written (best effort).                   *)
(***************************************************************************)
ServiceMode ==
    /\ pc = "new"
    /\ startEvents' = NumEvents(log)
    /\ \E mkdirOK \in BOOLEAN, writeOK \in BOOLEAN :
          IF ~mkdirOK
          THEN /\ pc' = "returned"
               /\ result' = "error"
               /\ UNCHANGED <<statusFile, statusWritten>>
          ELSE /\ pc' = "baseline"
               /\ statusFile' = (statusFile \/ writeOK)
               /\ statusWritten' = writeOK
               /\ UNCHANGED result
    /\ UNCHANGED <<log, logExists, watcherFields, now, tickLocals, cancelled,
                   tickErr, outputs, startAbsent, direct, disk>>

(***************************************************************************)
(* EventWatcher.initializeBaseline, one action per read of the log.  A     *)
(* failed stat makes Start return the error; ServiceMode's deferred        *)
(* os.Remove then runs.                                                    *)
(***************************************************************************)
BaselineStatKeepStatus ==
    /\ pc = "baseline"
    /\ IF ~logExists
       THEN /\ lastFileSize' = 0
            /\ lastEventCount' = 0
            /\ lastProcessed' = now
            /\ startAbsent' = TRUE
            /\ pc' = "select"
            /\ UNCHANGED <<result, statusFile>>
       ELSE \E statOK \in BOOLEAN :
               IF statOK
               THEN /\ lastFileSize' = FileSize(log)
                    /\ pc' = "baselineStats"
                    /\ UNCHANGED <<lastEventCount, lastProcessed, startAbsent,
                                   result, statusFile>>
               ELSE /\ pc' = "returned"
                    /\ result' = "error"
                    /\ UNCHANGED <<watcherFields, startAbsent, statusFile>>
    /\ UNCHANGED <<log, logExists, now, tickLocals, cancelled, tickErr,
                   outputs, startEvents, statusWritten, direct, disk>>

BaselineStat ==
    /\ pc = "baseline"
    /\ IF ~logExists
       THEN /\ lastFileSize' = 0
            /\ lastEventCount' = 0
            /\ lastProcessed' = now
            /\ startAbsent' = TRUE
            /\ pc' = "select"
            /\ UNCHANGED <<result, statusFile>>
       ELSE \E statOK \in BOOLEAN :
               IF statOK
               THEN /\ lastFileSize' = FileSize(log)
                    /\ pc' = "baselineStats"
                    /\ UNCHANGED <<lastEventCount, lastProcessed, startAbsent,
                                   result, statusFile>>
               ELSE /\ pc' = "returned"
                    /\ result' = "error"
                    /\ statusFile' = FALSE
                    /\ UNCHANGED <<watcherFields, startAbsent>>
    /\ UNCHANGED <<log, logExists, now, tickLocals, cancelled, tickErr,
                   outputs, startEvents, statusWritten, direct, disk>>

BaselineStats ==
    /\ pc = "baselineStats"
    /\ \E readOK \in BOOLEAN :
          LET stats == GetProcessingStats(logExists, readOK, log)
          IN  lastEventCount' = IF stats.err # "" THEN 0 ELSE stats.TotalEvents
    /\ lastProcessed' = now
    /\ pc' = "select"
    /\ UNCHANGED <<log, logExists, lastFileSize, now, tickLocals, cancelled,
                   statusFile, result, tickErr, outputs, history, direct, disk>>

(***************************************************************************)
(* EventWatcher.Start, the poll loop.  The select chooses ctx.Done() when  *)
(* it is closed, or the ticker; a tick runs checkForNewEvents, which reads *)
(* the log three times (stat, GetProcessingStats, ProcessLatestEvents);    *)
(* the writer may append between the reads.                                *)
(***************************************************************************)
StopOnCancel ==
    /\ pc = "select"
    /\ cancelled
    /\ pc' = "returned"
    /\ result' = "nil"
    /\ statusFile' = FALSE
    /\ UNCHANGED <<log, logExists, watcherFields, now, tickLocals, cancelled,
                   tickErr, outputs, history, direct, disk>>

\* checkForNewEvents up to the size comparison
TickStatTouch ==
    /\ pc = "select"
    /\ now < MaxTicks
    /\ now' = now + 1
    /\ IF ~logExists
       THEN /\ tickErr' = FALSE
            /\ pc' = "select"
            /\ lastProcessed' = now'
            /\ UNCHANGED <<curSize, lastFileSize, lastEventCount>>
       ELSE \E statOK \in BOOLEAN :
               IF ~statOK
               THEN /\ tickErr' = TRUE
                    /\ pc' = "select"
                    /\ UNCHANGED <<curSize, watcherFields>>
               ELSE IF FileSize(log) = lastFileSize
               THEN /\ tickErr' = FALSE
                    /\ pc' = "select"
                    /\ lastProcessed' = now'
                    /\ UNCHANGED <<curSize, lastFileSize, lastEventCount>>
               ELSE /\ tickErr' = FALSE
                    /\ curSize' = FileSize(log)
                    /\ pc' = "stats"
                    /\ UNCHANGED watcherFields
    /\ UNCHANGED <<log, logExists, total, cancelled, statusFile, result,
                   outputs, history, direct, disk>>

TickStat ==
    /\ pc = "select"
    /\ now < MaxTicks
    /\ now' = now + 1
    /\ IF ~logExists
       THEN /\ tickErr' = FALSE
            /\ pc' = "select"
            /\ UNCHANGED curSize
       ELSE \E statOK \in BOOLEAN :
               IF ~statOK
               THEN /\ tickErr' = TRUE
                    /\ pc' = "select"
                    /\ UNCHANGED curSize
               ELSE IF FileSize(log) = lastFileSize
               THEN /\ tickErr' = FALSE
                    /\ pc' = "select"
                    /\ UNCHANGED curSize
               ELSE /\ tickErr' = FALSE
                    /\ curSize' = FileSize(log)
                    /\ pc' = "stats"
    /\ UNCHANGED <<log, logExists, watcherFields, total, cancelled,
                   statusFile, result, outputs, history, direct, disk>>

\* checkForNewEvents: GetProcessingStats and the count comparison
TickStatsFatal ==
    /\ pc = "stats"
    /\ \E readOK \in BOOLEAN :
          LET stats == GetProcessingStats(logExists, readOK, log)
          IN  IF stats.err # ""
              THEN /\ tickErr' = TRUE
                   /\ pc' = "returned"
                   /\ result' = "error"
                   /\ statusFile' = FALSE
                   /\ curSize' = 0
                   /\ UNCHANGED total
              ELSE IF stats.TotalEvents > lastEventCount
              THEN /\ total' = stats.TotalEvents
                   /\ pc' = "process"
                   /\ UNCHANGED <<tickErr, curSize, result, statusFile>>
              ELSE /\ pc' = "select"
                   /\ curSize' = 0
                   /\ UNCHANGED <<tickErr, total, result, statusFile>>
    /\ UNCHANGED <<log, logExists, watcherFields, now, cancelled,
                   outputs, history, direct, disk>>

TickStats ==
    /\ pc = "stats"
    /\ \E readOK \in BOOLEAN :
          LET stats == GetProcessingStats(logExists, readOK, log)
          IN  IF stats.err # ""
              THEN /\ tickErr' = TRUE
                   /\ pc' = "select"
                   /\ curSize' = 0
                   /\ UNCHANGED total
              ELSE IF stats.TotalEvents > lastEventCount
              THEN /\ total' = stats.TotalEvents
                   /\ pc' = "process"
                   /\ UNCHANGED <<tickErr, curSize>>
              ELSE /\ pc' = "select"
                   /\ curSize' = 0
                   /\ UNCHANGED <<tickErr, total>>
    /\ UNCHANGED <<log, logExists, watcherFields, now, cancelled,
                   statusFile, result, outputs, history, direct, disk>>

\* checkForNewEvents: processNewEvents and the update of the tracking fields
TickProcess ==
    /\ pc = "process"
    /\ \E readOK \in BOOLEAN, saveFail \in SUBSET (1..NumEvents(log)) :
          \E r \in {ProcessLatestEvents(logExists, readOK, log,
                                      total - lastEventCount, saveFail,
                                      now)} :
              IF r.err # ""
              THEN /\ tickErr' = TRUE
                   /\ UNCHANGED <<watcherFields, outputs>>
              ELSE /\ handed' = handed \o r.attempted
                   /\ written' = written \o r.paths
                   /\ lastEventCount' = total
                   /\ lastFileSize' = curSize
                   /\ lastProcessed' = now
                   /\ UNCHANGED tickErr
    /\ pc' = "select"
    /\ curSize' = 0
    /\ total' = 0
    /\ UNCHANGED <<log, logExists, now, cancelled, statusFile, result,
                   history, direct, disk>>

Next ==
    \/ ExternalCreate
    \/ ExternalAppend
    \/ Cancel
    \/ ServiceMode
    \/ BaselineStat
    \/ BaselineStats
    \/ StopOnCancel
    \/ TickStat
    \/ TickStats
    \/ TickProcess

Spec == Init /\ [][Next]_vars

(***************************************************************************)
(* The hook ingestion path: hooks.ProcessFromStdin reads one event from    *)
(* stdin, SaveEvent validates and appends it, and the approve response is  *)
(* written to stdout.                                                      *)
(***************************************************************************)
HookSids == {EmptyStr, BlankStr, SidA}
HookNames == {EmptyStr, NameStop, NameNotif}
HookEvents ==
    {ClaudeHookEvent(s, n, "t_stop", Stamp1) : s \in HookSids, n \in HookNames}

\* the error SaveEvent returns and the log it leaves
SaveEvent(event, openOK, exists, lines) ==
    IF Validate(event) # ""
    THEN [err |-> "invalid hook event", exists |-> exists, lines |-> lines]
    ELSE IF ~openOK
    THEN [err |-> "failed to open log file", exists |-> exists,
          lines |-> lines]
    ELSE [err |-> "", exists |-> TRUE, lines |-> Append(lines, EventLine(event))]

ProcessFromStdin ==
    /\ Len(log) < MaxHook
    /\ \E decodeOK \in BOOLEAN, event \in HookEvents,
          openOK \in BOOLEAN, sendOK \in BOOLEAN :
          IF ~decodeOK
          THEN /\ call' = [op |-> "hook", ev |-> NoEvent]
               /\ ret' = [err |-> "failed to decode hook event from stdin"]
               /\ UNCHANGED <<log, logExists, stdout>>
          ELSE LET sv == SaveEvent(event, openOK, logExists, log)
               IN  /\ call' = [op |-> "hook", ev |-> event]
                   /\ log' = sv.lines
                   /\ logExists' = sv.exists
                   /\ IF sv.err # ""
                      THEN /\ ret' = [err |-> "failed to save hook event"]
                           /\ UNCHANGED stdout
                      ELSE IF ~sendOK
                      THEN /\ ret' = [err |-> "failed to send hook response"]
                           /\ UNCHANGED stdout
                      ELSE /\ ret' = [err |-> ""]
                           /\ stdout' = stdout + 1
    /\ UNCHANGED <<pc, watcherFields, now, tickLocals, cancelled, statusFile,
                   result, tickErr, outputs, history, disk>>

NextHook == ProcessFromStdin

SpecHook == Init /\ [][NextHook]_vars

(***************************************************************************)
(* Direct calls of the processor and the extractor on a given log: the     *)
(* log, and whether it exists, are drawn at the start; one call is made.   *)
(***************************************************************************)
EvBadTr == ClaudeHookEvent(SidB, NameStopUpper, "t_bad", EmptyStr)

ProcLines == {EventLine(EvGood), EventLine(EvGone), EventLine(EvTool),
              EventLine(EvBadTr), BadLine, BlankLine}

LogsUpTo(n) == UNION {[1..k -> ProcLines] : k \in 0..n}

ExtractSids == {EmptyStr, SidA}
ExtractNames == {EmptyStr, NameStop, NameStopUpper, NameNotif, NameOther}
ExtractEvents ==
    {ClaudeHookEvent(s, n, t, Stamp1) :
        s \in ExtractSids, n \in ExtractNames, t \in TranscriptPaths}

InitProc ==
    /\ log \in LogsUpTo(MaxLines)
    /\ logExists \in BOOLEAN
    /\ (~logExists => log = <<>>)
    /\ pc = "new"
    /\ lastFileSize = 0
    /\ lastEventCount = 0
    /\ lastProcessed = 0
    /\ now = 0
    /\ curSize = 0
    /\ total = 0
    /\ cancelled = FALSE
    /\ statusFile = FALSE
    /\ result = "none"
    /\ tickErr = FALSE
    /\ handed = <<>>
    /\ written = <<>>
    /\ startEvents = 0
    /\ startAbsent = FALSE
    /\ statusWritten = FALSE
    /\ stdout = 0
    /\ call = NoCall
    /\ ret = NoRet
    /\ tfile = NoFile
    /\ outFiles = {}
    /\ responses = {}
    /\ answered = {}
    /\ monitor = NoMonitor
    /\ settings = NoSettings

procFrame == <<log, logExists, pc, watcherFields, now, tickLocals, cancelled,
               statusFile, result, tickErr, history, stdout, disk>>

CallProcessLatestEvents ==
    /\ call.op = "none"
    /\ \E n \in 0..MaxN, readOK \in BOOLEAN,
          saveFail \in SUBSET (1..NumEvents(log)) :
          /\ call' = [op |-> "latest", ev |-> NoEvent, n |-> n,
                      readOK |-> readOK, saveFail |-> saveFail]
          /\ ret' = ProcessLatestEvents(logExists, readOK, log, n, saveFail,
                                        now)
          /\ handed' = ret'.attempted
          /\ written' = ret'.paths
    /\ UNCHANGED procFrame

CallProcessEventsFromFile ==
    /\ call.op = "none"
    /\ \E readOK \in BOOLEAN, saveFail \in SUBSET (1..NumEvents(log)) :
          /\ call' = [op |-> "all", ev |-> NoEvent, n |-> 0,
                      readOK |-> readOK, saveFail |-> saveFail]
          /\ ret' = ProcessEventsFromFile(logExists, readOK, log, saveFail, now)
          /\ handed' = ret'.attempted
          /\ written' = ret'.paths
    /\ UNCHANGED procFrame

CallExtract ==
    /\ call.op = "none"
    /\ \E event \in ExtractEvents :
          /\ call' = [op |-> "extract", ev |-> event]
          /\ ret' = ExtractorProcessEvent(event)
    /\ UNCHANGED <<procFrame, outputs>>

NextProc ==
    \/ CallProcessLatestEvents
    \/ CallProcessEventsFromFile
    \/ CallExtract

SpecProc == InitProc /\ [][NextProc]_vars

(***************************************************************************)
(* Direct calls of the extraction and formatting pipeline: the transcript  *)
(* "t_var" is drawn at the start; one event is processed                   *)
(* (processor.ProcessEvent), or one ExtractedData is formatted             *)
(* (formatter.CreateActionableMessage).                                    *)
(***************************************************************************)
MaxItems == 2
MaxKeys == 2

SidLong == <<"a", "b", "c", "d", "e", "f", "g", "h", "i", "j">>
CwdProj == <<"/", "h", "/", "p", "r", "o", "j">>
InVal == <<"v">>

FragError == <<"E", "r", "r", "o", "r", ":">>
FragFailed == <<"F", "A", "I", "L", "E", "D">>
FragCannot == <<"c", "a", "n", "n", "o", "t">>
FragUnable == <<"U", "n", "a", "b", "l", "e">>
FragCompleted == <<"C", "o", "m", "p", "l", "e", "t", "e", "d">>
FragFinished == <<"f", "i", "n", "i", "s", "h", "e", "d">>
FragCreated == <<"c", "r", "e", "a", "t", "e", "d">>
FragUpdated == <<"u", "p", "d", "a", "t", "e", "d">>
FragSuccess == <<"S", "u", "c", "c", "e", "s", "s", "f", "u", "l", "l", "y">>
FragNearMiss == <<"e", "r", "r">>

\* text segments of the last assistant message
Frags ==
    {EmptyStr, TextPlain, TextDone, FragError, FragFailed, FragCannot,
     FragUnable, FragCompleted, FragFinished, FragCreated, FragUpdated,
     FragSuccess, FragNearMiss}

ToolEditUpper == <<"E", "D", "I", "T">>
ToolBash == <<"B", "a", "s", "h">>
ToolRead == <<"R", "e", "a", "d">>
ToolFetch == <<"W", "e", "b", "F", "e", "t", "c", "h">>
ToolLs == <<"L", "S">>
ToolGrep == <<"G", "r", "e", "p">>

ToolNames ==
    {EmptyStr, ToolWrite, ToolEditUpper, ToolBash, ToolRead, ToolFetch,
     ToolLs, ToolGrep}

\* keys a tool input may carry
InputKeys ==
    {"file_path", "content", "command", "path", "session_id", "cwd",
     "tool_name", "action"}

ToolInputs ==
    {[k \in S |-> InVal] : S \in {T \in SUBSET InputKeys :
                                     Cardinality(T) <= MaxKeys}}

TextItemSeqs ==
    UNION {[1..n -> {TextItemOf(f) : f \in Frags}] : n \in 0..MaxItems}

WithTokens(l, n) == [l EXCEPT !.tokens = n]

\* the last assistant messages: text segments only, or a text and a tool use
FmtAssistantLines ==
    {WithTokens(MsgLine("assistant", "list", its), n) :
        its \in TextItemSeqs, n \in {0, 5}}
    \cup {MsgLine("assistant", "list",
                  <<TextItemOf(TextPlain), ToolUseWith(t, in)>>) :
             t \in ToolNames, in \in ToolInputs}

\* transcripts with several tool uses: an assistant message with two
\* tool_use items, followed by nothing, by an assistant message without a
\* tool use, by one with another tool use, or by a user message
FmtLaterLines ==
    {<<>>,
     <<MsgLine("assistant", "list", <<TextItemOf(TextDone)>>)>>,
     <<MsgLine("assistant", "list", <<ToolUseWith(ToolGrep, NoInput)>>)>>,
     <<UserMsg>>}

FmtLayeredTranscripts ==
    {[exists |-> TRUE,
      lines |-> <<UserMsg,
                  MsgLine("assistant", "list",
                          <<TextItemOf(TextPlain), ToolUseWith(t1, NoInput),
                            ToolUseWith(t2, NoInput)>>)>> \o later] :
        t1 \in {ToolBash, ToolLs}, t2 \in {ToolRead, ToolEditUpper},
        later \in FmtLaterLines}

FmtTranscripts ==
    {[exists |-> TRUE, lines |-> <<UserMsg, l>>] : l \in FmtAssistantLines}
    \cup FmtLayeredTranscripts

FmtEvents ==
    {[ClaudeHookEvent(sid, n, "t_var", ts) EXCEPT !.cwd = c] :
        sid \in {SidA, SidLong}, n \in {NameStop, NameNotif},
        ts \in {Stamp1}, c \in {CwdProj}}

StatusPaused == <<"p", "a", "u", "s", "e", "d">>
FmtStatuses ==
    {StatusCompleted, StatusError, StatusCancelled, StatusPaused, EmptyStr}

\* ExtractedData handed to the formatter directly
FmtData ==
    {[err |-> "", reads |-> 0, eventType |-> et, session_id |-> SidLong,
      cwd |-> CwdProj, timestamp |-> Stamp1, data |-> d] :
        et \in {"stop", "notification", "other"},
        d \in {[kind |-> "stop", FinalMessage |-> TextDone,
                TaskStatus |-> st] : st \in FmtStatuses}
              \cup {processToolUse(ToolUseWith(ToolBash, NoInput), NoEvent)}}

InitFmt ==
    /\ tfile \in FmtTranscripts
    /\ log = <<>>
    /\ logExists = FALSE
    /\ pc = "new"
    /\ lastFileSize = 0
    /\ lastEventCount = 0
    /\ lastProcessed = 0
    /\ now = 0
    /\ curSize = 0
    /\ total = 0
    /\ cancelled = FALSE
    /\ statusFile = FALSE
    /\ result = "none"
    /\ tickErr = FALSE
    /\ handed = <<>>
    /\ written = <<>>
    /\ startEvents = 0
    /\ startAbsent = FALSE
    /\ statusWritten = FALSE
    /\ stdout = 0
    /\ call = NoCall
    /\ ret = NoRet
    /\ outFiles = {}
    /\ responses = {}
    /\ answered = {}
    /\ monitor = NoMonitor
    /\ settings = NoSettings

fmtFrame == <<log, logExists, pc, watcherFields, now, tickLocals, cancelled,
              statusFile, result, tickErr, outputs, history, stdout, disk>>

CallProcessEvent ==
    /\ call.op = "none"
    /\ \E event \in FmtEvents :
          /\ call' = [op |-> "process", ev |-> event]
          /\ ret' = ProcessEvent(event)
    /\ UNCHANGED fmtFrame

CallCreateActionableMessage ==
    /\ call.op = "none"
    /\ \E data \in FmtData :
          /\ call' = [op |-> "format", ev |-> NoEvent, data |-> data]
          /\ ret' = [err |-> CreateActionableMessage(data).err,
                     message |-> CreateActionableMessage(data)]
    /\ UNCHANGED fmtFrame

NextFmt ==
    \/ CallProcessEvent
    \/ CallCreateActionableMessage

SpecFmt == InitFmt /\ [][NextFmt]_vars

(***************************************************************************)
(* Direct calls of the transcript reader: the transcript "t_var" is drawn  *)
(* at the start, one query is made.  The message on line i has the UUID    *)
(* Uuids[i]; its ParentUUID is empty, the UUID of an earlier line, or an   *)
(* id no line carries.                                                     *)
(***************************************************************************)
MaxTLines == 3

Uuids == <<"u1", "u2", "u3", "u4", "u5", "u6">>
GhostUuid == "ghost"

Linked(l, u, parent) == [l EXCEPT !.uuid = u, !.parent = parent]

TrLinesAt(i) ==
    {BadTLine, BlankTLine}
    \cup {Linked(l, Uuids[i], parent) :
             l \in {UserMsg, AssistantText, AssistantTool},
             parent \in {"", GhostUuid} \cup {Uuids[j] : j \in 1..(i - 1)}}

RECURSIVE TrFilesOfLen(_)
TrFilesOfLen(n) ==
    IF n = 0 THEN {<<>>}
    ELSE {Append(f, l) : f \in TrFilesOfLen(n - 1), l \in TrLinesAt(n)}

TrFiles ==
    {NoFile} \cup
    {[exists |-> TRUE, lines |-> f] :
        f \in UNION {TrFilesOfLen(n) : n \in 0..MaxTLines}}

InitTr ==
    /\ tfile \in TrFiles
    /\ log = <<>>
    /\ logExists = FALSE
    /\ pc = "new"
    /\ lastFileSize = 0
    /\ lastEventCount = 0
    /\ lastProcessed = 0
    /\ now = 0
    /\ curSize = 0
    /\ total = 0
    /\ cancelled = FALSE
    /\ statusFile = FALSE
    /\ result = "none"
    /\ tickErr = FALSE
    /\ handed = <<>>
    /\ written = <<>>
    /\ startEvents = 0
    /\ startAbsent = FALSE
    /\ statusWritten = FALSE
    /\ stdout = 0
    /\ call = NoCall
    /\ ret = NoRet
    /\ outFiles = {}
    /\ responses = {}
    /\ answered = {}
    /\ monitor = NoMonitor
    /\ settings = NoSettings

CallParseTranscriptFile ==
    /\ call.op = "none"
    /\ call' = [op |-> "parse", ev |-> NoEvent]
    /\ ret' = ParseTranscriptFile("t_var")
    /\ UNCHANGED fmtFrame

CallGetLastAssistantMessage ==
    /\ call.op = "none"
    /\ call' = [op |-> "lastAssistant", ev |-> NoEvent]
    /\ ret' = GetLastAssistantMessage("t_var")
    /\ UNCHANGED fmtFrame

CallGetLastToolUse ==
    /\ call.op = "none"
    /\ call' = [op |-> "lastToolUse", ev |-> NoEvent]
    /\ ret' = GetLastToolUse("t_var")
    /\ UNCHANGED fmtFrame

CallGetMessageChain ==
    /\ call.op = "none"
    /\ \E startUUID \in {"", GhostUuid}
                        \cup {Uuids[i] : i \in 1..Len(tfile.lines)} :
          /\ call' = [op |-> "chain", ev |-> NoEvent, start |-> startUUID]
          /\ ret' = GetMessageChain("t_var", startUUID)
    /\ UNCHANGED fmtFrame

CallGetConversationContext ==
    /\ call.op = "none"
    /\ \E maxMessages \in 0..MaxN :
          /\ call' = [op |-> "context", ev |-> NoEvent, n |-> maxMessages]
          /\ ret' = GetConversationContext("t_var", maxMessages)
    /\ UNCHANGED fmtFrame

NextTr ==
    \/ CallParseTranscriptFile
    \/ CallGetLastAssistantMessage
    \/ CallGetLastToolUse
    \/ CallGetMessageChain
    \/ CallGetConversationContext

SpecTr == InitTr /\ [][NextTr]_vars

(***************************************************************************)
(* responder.ResponseHandler.  A message file of the output directory is   *)
(* its name (the parts generateFileName joins) and the MessengerMessage    *)
(* stored in it; a response file is its name (the session prefix) and the  *)
(* recorded fields.  An out-of-range slice expression (sessionID[:8] on a  *)
(* shorter string) ends the call with a runtime panic.                     *)
(***************************************************************************)
Dash == <<"-">>

\* the file name between "messenger-" and ".json"
NameTail(path) == path.kind \o Dash \o path.short \o Dash \o path.stamp

\* filepath.Glob of "messenger-<kind>-<prefix>-*.json"
GlobKindPrefix(files, kind, prefix) ==
    {f \in files : HasPrefix(NameTail(f.path), kind \o Dash \o prefix \o Dash)}

\* filepath.Glob of "messenger-*-<prefix>-*.json"
GlobAnyKindPrefix(files, prefix) ==
    {f \in files : Contains(NameTail(f.path), Dash \o prefix \o Dash)}

\* filepath.Glob of "messenger-notification-*.json"
GlobNotification(files) ==
    {f \in files : HasPrefix(NameTail(f.path), LowerNotif \o Dash)}

\* the matches of a pattern whose stored session id passes the two-way
\* prefix check; the first of them in Glob's order is returned
Verified(matches, sessionID) ==
    {f \in matches : \/ HasPrefix(f.message.session_id, sessionID)
                     \/ HasPrefix(sessionID, f.message.session_id)}

\* the files findMessengerFile can return, or the error
findMessengerFile(files, sessionID) ==
    IF Len(sessionID) < SessionShortLen
    THEN [err |-> "panic", found |-> {}]
    ELSE LET prefix == SubSeq(sessionID, 1, SessionShortLen)
             m1 == Verified(GlobKindPrefix(files, LowerNotif, prefix),
                            sessionID)
             m2 == Verified(GlobKindPrefix(files, LowerStop, prefix),
                            sessionID)
             m3 == Verified(GlobAnyKindPrefix(files, prefix), sessionID)
         IN  IF m1 # {} THEN [err |-> "", found |-> m1]
             ELSE IF m2 # {} THEN [err |-> "", found |-> m2]
             ELSE IF m3 # {} THEN [err |-> "", found |-> m3]
             ELSE [err |-> "no messenger file found", found |-> {}]

\* the name of the response file; called only with Len(sessionID) >= 8
getResponseFilePath(sessionID) == SubSeq(sessionID, 1, SessionShortLen)

ResponseFileExists(resp, name) == \E r \in resp : r.name = name
ResponseFile(resp, name) == CHOOSE r \in resp : r.name = name

isValidActionAnyKnown(message, action) ==
    action \in {"approve", "reject", "info", "modify"}

isValidAction(message, action) ==
    IF message.type = "action_needed" /\ Len(message.actions) > 0
    THEN \E i \in 1..Len(message.actions) : message.actions[i].Type = action
    ELSE action \in {"approve", "reject", "info"}

\* os.WriteFile of the response record replaces a file of the same name
recordResponse(resp, sessionID, action, message) ==
    {r \in resp : r.name # getResponseFilePath(sessionID)}
    \cup {[name |-> getResponseFilePath(sessionID),
           session_id |-> sessionID, action |-> action,
           message_type |-> message.type]}

\* executeAction after the response is recorded
executeAction(action) ==
    IF action \in {"approve", "reject", "info"} THEN ""
    ELSE "unknown action"

determineStatus(message) ==
    CASE message.type = "action_needed" -> "pending_response"
      [] message.type = "completion" -> "completed"
      [] OTHER -> "active"

\* the SessionStatus GetSessionStatus builds for the located file
SessionStatusDoneOnceAnswered(file, resp, sessionID) ==
    LET name == getResponseFilePath(sessionID)
    IN  [err |-> "", file |-> file,
         Status |-> IF ResponseFileExists(resp, name) THEN "completed"
                    ELSE determineStatus(file.message),
         LastAction |-> IF ResponseFileExists(resp, name)
                        THEN ResponseFile(resp, name).action ELSE ""]

SessionStatus(file, resp, sessionID) ==
    LET name == getResponseFilePath(sessionID)
    IN  [err |-> "", file |-> file,
         Status |-> determineStatus(file.message),
         LastAction |-> IF ResponseFileExists(resp, name)
                        THEN ResponseFile(resp, name).action ELSE ""]

\* the PendingActions ListPendingActions returns, or the panic
PendingOrPanic(files, resp) ==
    LET needed == {f \in GlobNotification(files) :
                      f.message.type = "action_needed"}
    IN  IF \E f \in needed : Len(f.message.session_id) < SessionShortLen
        THEN [err |-> "panic", pending |-> {}]
        ELSE [err |-> "",
              pending |-> {f \in needed :
                  ~ResponseFileExists(resp,
                       getResponseFilePath(f.message.session_id))}]

(***************************************************************************)
(* The response commands on an output directory the processor fills.       *)
(***************************************************************************)
MaxFiles == 2

SidTwin == <<"a", "b", "c", "d", "e", "f", "g", "h", "X", "Y">>
QueryShort == <<"a", "b", "c", "d">>
QueryEight == <<"a", "b", "c", "d", "e", "f", "g", "h">>
QueryLonger == <<"a", "b", "c", "d", "e", "f", "g", "h", "i", "j", "k", "l">>
QueryOverShort == <<"a", "1", "2", "3", "4", "5", "6", "7">>
QueryNone == <<"z", "z", "z", "z", "z", "z", "z", "z">>

BashTranscript ==
    [exists |-> TRUE,
     lines |-> <<UserMsg,
                 MsgLine("assistant", "list",
                         <<ToolUseWith(ToolBash, NoInput)>>)>>]

RespEvents ==
    {ClaudeHookEvent(SidA, NameNotif, "t_tool", Stamp1),
     ClaudeHookEvent(SidLong, NameNotif, "t_var", Stamp1),
     ClaudeHookEvent(SidLong, NameNotif, "t_tool", EmptyStr),
     ClaudeHookEvent(SidLong, NameStop, "t_stop", Stamp1),
     ClaudeHookEvent(SidTwin, NameNotif, "t_tool", EmptyStr),
     ClaudeHookEvent(SidTwin, NameStop, "t_stop", Stamp1)}

RespQueries ==
    {QueryShort, QueryEight, SidLong, QueryLonger, QueryOverShort, QueryNone}

RespActions == {"approve", "reject", "info", "modify"}

NoMessageFile == [path |-> NoPath, message |-> FormatFailed("", NoEvent)]

InitResp ==
    /\ tfile = BashTranscript
    /\ outFiles = {}
    /\ responses = {}
    /\ answered = {}
    /\ monitor = NoMonitor
    /\ settings = NoSettings
    /\ log = <<>>
    /\ logExists = FALSE
    /\ pc = "new"
    /\ lastFileSize = 0
    /\ lastEventCount = 0
    /\ lastProcessed = 0
    /\ now = 0
    /\ curSize = 0
    /\ total = 0
    /\ cancelled = FALSE
    /\ statusFile = FALSE
    /\ result = "none"
    /\ tickErr = FALSE
    /\ handed = <<>>
    /\ written = <<>>
    /\ startEvents = 0
    /\ startAbsent = FALSE
    /\ statusWritten = FALSE
    /\ stdout = 0
    /\ call = NoCall
    /\ ret = NoRet

respFrame == <<log, logExists, pc, watcherFields, now, tickLocals, cancelled,
               statusFile, result, tickErr, outputs, history, stdout, tfile,
               settings, monitor>>

\* A command that left the disk as it was is the last step looked at: the
\* commands that follow it would start from a disk already explored.
DiskChanged ==
    \/ call.op \in {"none", "save"}
    \/ call.op = "respond" /\ ret.recorded

\* processor.ProcessEventAndSave writes one message file
SaveMessageToFile ==
    /\ DiskChanged
    /\ \E event \in RespEvents, saveOK \in BOOLEAN :
          \E r \in {ProcessEventAndSave(event, saveOK, now)},
             m \in {ProcessEvent(event)} :
              /\ call' = [op |-> "save", ev |-> NoEvent]
              /\ ret' = [err |-> r.err]
              /\ IF r.err # "" THEN UNCHANGED <<outFiles, answered>>
                 ELSE /\ \/ Cardinality(outFiles) < MaxFiles
                         \/ \E f \in outFiles : f.path = r.path
                      /\ outFiles' =
                             {f \in outFiles : f.path # r.path}
                                 \cup {[path |-> r.path,
                                        message |-> m.message]}
                      /\ answered' = answered \ {r.path}
    /\ UNCHANGED <<respFrame, responses>>

\* the paths of the message files of the session the file belongs to
SessionFiles(files, file) ==
    {f.path : f \in {g \in files :
                        g.message.session_id = file.message.session_id}}

HandleResponse ==
    /\ DiskChanged
    /\ \E sessionID \in RespQueries, action \in RespActions,
          writeOK \in BOOLEAN :
          \E loc \in {findMessengerFile(outFiles, sessionID)} :
              /\ call' = [op |-> "respond", ev |-> NoEvent,
                          session |-> sessionID, action |-> action]
              /\ IF loc.err # ""
                 THEN /\ ret' = [err |-> loc.err, file |-> NoMessageFile,
                                 recorded |-> FALSE]
                      /\ UNCHANGED <<responses, answered>>
                 ELSE \E file \in loc.found :
                         IF ~isValidAction(file.message, action)
                         THEN /\ ret' = [err |-> "invalid action",
                                         file |-> file, recorded |-> FALSE]
                              /\ UNCHANGED <<responses, answered>>
                         ELSE IF ~writeOK
                         THEN /\ ret' = [err |-> "failed to record response",
                                         file |-> file, recorded |-> FALSE]
                              /\ UNCHANGED <<responses, answered>>
                         ELSE /\ ret' = [err |-> executeAction(action),
                                         file |-> file, recorded |-> TRUE]
                              /\ responses' =
                                     recordResponse(responses, sessionID,
                                                    action, file.message)
                              /\ answered' =
                                     IF executeAction(action) # ""
                                     THEN answered
                                     ELSE answered \cup
                                          SessionFiles(outFiles, file)
    /\ UNCHANGED <<respFrame, outFiles>>

GetSessionStatus ==
    /\ DiskChanged
    /\ \E sessionID \in RespQueries, statOK \in BOOLEAN :
          \E loc \in {findMessengerFile(outFiles, sessionID)} :
              /\ call' = [op |-> "status", ev |-> NoEvent,
                          session |-> sessionID]
              /\ IF loc.err # ""
                 THEN ret' = [err |-> loc.err, file |-> NoMessageFile,
                              Status |-> "", LastAction |-> ""]
                 ELSE \E file \in loc.found :
                         IF ~statOK
                         THEN ret' = [err |-> "failed to get file info",
                                      file |-> file, Status |-> "",
                                      LastAction |-> ""]
                         ELSE ret' = SessionStatus(file, responses, sessionID)
    /\ UNCHANGED <<respFrame, outFiles, responses, answered>>

ListPendingActions ==
    /\ DiskChanged
    /\ call' = [op |-> "pending", ev |-> NoEvent]
    /\ ret' = PendingOrPanic(outFiles, responses)
    /\ UNCHANGED <<respFrame, outFiles, responses, answered>>

NextResp ==
    \/ SaveMessageToFile
    \/ HandleResponse
    \/ GetSessionStatus
    \/ ListPendingActions

SpecResp == InitResp /\ [][NextResp]_vars

(***************************************************************************)
(* The watcher that keeps ticking: no shutdown signal arrives, the reads   *)
(* of the log succeed and every tick that started completes.  The clock    *)
(* readings beyond MaxTicks are not told apart.                            *)
(***************************************************************************)
LiveTickStat ==
    /\ pc = "select"
    /\ now' = IF now < MaxTicks THEN now + 1 ELSE now
    /\ tickErr' = FALSE
    /\ IF ~logExists \/ FileSize(log) = lastFileSize
       THEN /\ pc' = "select"
            /\ UNCHANGED curSize
       ELSE /\ curSize' = FileSize(log)
            /\ pc' = "stats"
    /\ UNCHANGED <<log, logExists, watcherFields, total, cancelled,
                   statusFile, result, outputs, history, direct, disk>>

LiveTickStats == TickStats /\ ~tickErr'

LiveTickProcess == TickProcess /\ ~tickErr'

NextLive ==
    \/ ExternalCreate
    \/ ExternalAppend
    \/ ServiceMode
    \/ BaselineStat
    \/ BaselineStats
    \/ LiveTickStat
    \/ LiveTickStats
    \/ LiveTickProcess

SpecLive ==
    /\ Init
    /\ [][NextLive]_vars
    /\ WF_vars(LiveTickStat)
    /\ WF_vars(LiveTickStats)
    /\ WF_vars(LiveTickProcess)

(***************************************************************************)
(* Reader.GetMessageChain step by step: ret holds the locals of the call   *)
(* (chain, currentUUID) and whether it has returned.  The ParentUUID of a  *)
(* line is any string a transcript can carry: empty, an id no line has, or *)
(* the UUID of any line, itself and later lines included.  Of a chain      *)
(* longer than MaxChain only the front is kept.                            *)
(***************************************************************************)
MaxChain == 4

ChainLinesAt(i, n) ==
    {Linked(UserMsg, Uuids[i], parent) :
        parent \in {"", GhostUuid} \cup {Uuids[j] : j \in 1..n}}

\* the first k lines of the files of n lines
RECURSIVE ChainPrefixes(_, _)
ChainPrefixes(k, n) ==
    IF k = 0 THEN {<<>>}
    ELSE {Append(f, l) : f \in ChainPrefixes(k - 1, n),
                         l \in ChainLinesAt(k, n)}

ChainFilesOfLen(n) == ChainPrefixes(n, n)

ChainFiles ==
    {[exists |-> TRUE, lines |-> f] :
        f \in UNION {ChainFilesOfLen(n) : n \in 0..MaxTLines}}

InitChain ==
    /\ tfile \in ChainFiles
    /\ log = <<>>
    /\ logExists = FALSE
    /\ pc = "new"
    /\ lastFileSize = 0
    /\ lastEventCount = 0
    /\ lastProcessed = 0
    /\ now = 0
    /\ curSize = 0
    /\ total = 0
    /\ cancelled = FALSE
    /\ statusFile = FALSE
    /\ result = "none"
    /\ tickErr = FALSE
    /\ handed = <<>>
    /\ written = <<>>
    /\ startEvents = 0
    /\ startAbsent = FALSE
    /\ statusWritten = FALSE
    /\ stdout = 0
    /\ call = NoCall
    /\ ret = NoRet
    /\ outFiles = {}
    /\ responses = {}
    /\ answered = {}
    /\ monitor = NoMonitor
    /\ settings = NoSettings

KeepFront(chain) ==
    IF Len(chain) > MaxChain THEN SubSeq(chain, 1, MaxChain) ELSE chain

\* the call up to the loop: the file is parsed, the map is built
ChainBegin ==
    /\ call.op = "none"
    /\ \E startUUID \in {"", GhostUuid}
                        \cup {Uuids[i] : i \in 1..Len(tfile.lines)} :
          /\ call' = [op |-> "chain", ev |-> NoEvent, start |-> startUUID]
          /\ \E p \in {ParseTranscriptFile("t_var")} :
                ret' = [err |-> p.err, chain |-> <<>>,
                        currentUUID |-> startUUID, messages |-> p.messages,
                        done |-> p.err # ""]
    /\ UNCHANGED fmtFrame

\* one evaluation of the loop condition and, when it holds, of the body
ChainLoop ==
    /\ call.op = "chain"
    /\ ~ret.done
    /\ IF ret.currentUUID # "" /\ MessageMapHas(ret.messages, ret.currentUUID)
       THEN \E msg \in {MessageMapGet(ret.messages, ret.currentUUID)} :
               ret' = [ret EXCEPT !.chain = KeepFront(<<msg>> \o @),
                                  !.currentUUID = msg.parent]
       ELSE ret' = [ret EXCEPT !.done = TRUE]
    /\ UNCHANGED <<call, fmtFrame>>

NextChain ==
    \/ ChainBegin
    \/ ChainLoop

SpecChain == InitChain /\ [][NextChain]_vars /\ WF_vars(ChainLoop)

(***************************************************************************)
(* claude: configuring the hooks of one settings.json.  settings is the    *)
(* file: whether it exists, whether it parses, and its hooks field.        *)
(***************************************************************************)
MaxMatchers == 2
MaxRuns == 2

ExecDefault == <<".", "/", "c", "l", "a", "u", "d", "e", "t", "o", "g", "o">>
ExecRenamed == <<"/", "o", "p", "t", "/", "c", "t", "g">>
CmdEcho == <<"e", "c", "h", "o", " ", "h", "i">>
CmdLint == <<"l", "i", "n", "t", " ", "-", "-", "h", "o", "o", "k">>
CmdStatus ==
    <<"c", "l", "a", "u", "d", "e", "t", "o", "g", "o", " ", "s", "t", "a",
      "t", "u", "s">>
CmdOld ==
    <<".", "/", "c", "l", "a", "u", "d", "e", "t", "o", "g", "o", " ", "-",
      "-", "h", "o", "o", "k", " ", "-", "-", "v", "e", "r", "b", "o", "s",
      "e">>
LogCustom == <<"a", ".", "l">>

HookLists ==
    { <<>>,
      <<HookConfig(CmdOld, 30)>>,
      <<HookConfig(CmdStatus, 5), HookConfig(CmdOld, 30),
        HookConfig(CmdLint, 0)>> }

Matchers == {HookMatcher(m, h) : m \in {"*", "Bash"}, h \in HookLists}

MatcherLists ==
    UNION {[1..n -> Matchers] : n \in 0..MaxMatchers}

\* the other hook types of the file: absent (<<>>) or one of these
NotificationAlternatives ==
    { <<HookMatcher("*", <<HookConfig(CmdOld, 30)>>)>>,
      <<HookMatcher("Bash", <<HookConfig(CmdEcho, 0)>>),
        HookMatcher("*", <<HookConfig(CmdLint, 0)>>)>> }
PreToolUseAlternatives ==
    { <<HookMatcher("Bash", <<HookConfig(CmdOld, 30),
                              HookConfig(CmdEcho, 0)>>)>> }

\* a hook type of the file: absent, or present with its matchers
Absent == [present |-> FALSE, matchers |-> <<>>]
Present(lists) == {[present |-> TRUE, matchers |-> l] : l \in lists}

HooksMaps ==
    {[t \in {u \in {"Stop", "Notification", "PreToolUse"} : c[u].present}
         |-> c[t].matchers] :
        c \in [Stop : {Absent} \cup Present(MatcherLists),
               Notification : {Absent} \cup Present(NotificationAlternatives),
               PreToolUse : {Absent} \cup Present(PreToolUseAlternatives)]}

SettingsFiles ==
    {NoSettings, [exists |-> TRUE, valid |-> FALSE, hooks |-> <<>>]}
    \cup {[exists |-> TRUE, valid |-> TRUE, hooks |-> h] : h \in HooksMaps}

\* a configuration and the path os.Executable() returns
Installs ==
    { <<ConfigFile(StrDefaultLog, FALSE), ExecDefault>>,
      <<ConfigFile(LogCustom, TRUE), ExecDefault>>,
      <<ConfigFile(StrDefaultLog, FALSE), ExecRenamed>> }

InitSettings ==
    /\ settings \in SettingsFiles
    /\ tfile = NoFile
    /\ log = <<>>
    /\ logExists = FALSE
    /\ pc = "new"
    /\ lastFileSize = 0
    /\ lastEventCount = 0
    /\ lastProcessed = 0
    /\ now = 0
    /\ curSize = 0
    /\ total = 0
    /\ cancelled = FALSE
    /\ statusFile = FALSE
    /\ result = "none"
    /\ tickErr = FALSE
    /\ handed = <<>>
    /\ written = <<>>
    /\ startEvents = 0
    /\ startAbsent = FALSE
    /\ statusWritten = FALSE
    /\ stdout = 0
    /\ call = NoCall
    /\ ret = NoRet
    /\ outFiles = {}
    /\ responses = {}
    /\ answered = {}
    /\ monitor = NoMonitor

settingsFrame == <<log, logExists, pc, watcherFields, now, tickLocals,
                   cancelled, statusFile, result, tickErr, outputs, history,
                   stdout, tfile, outFiles, responses, answered,
                   monitor>>

\* the hooks map LoadExistingSettings returns, made empty when nil
LoadExistingSettings(file) ==
    IF ~file.exists THEN [err |-> "", hooks |-> <<>>]
    ELSE IF ~file.valid
         THEN [err |-> "could not parse existing settings.json",
               hooks |-> <<>>]
         ELSE [err |-> "", hooks |-> file.hooks]

\* CleanupAllClaudeToGoHooks on the hooks of the file, in memory
CallCleanup ==
    /\ call.op = "none"
    /\ settings.exists /\ settings.valid
    /\ call' = [op |-> "cleanup", ev |-> NoEvent, hooks |-> settings.hooks]
    /\ ret' = [err |-> "", hooks |-> CleanupAllClaudeToGoHooks(settings.hooks)]
    /\ UNCHANGED <<settings, settingsFrame>>

ConfigureHooksAtLocation ==
    /\ call.op \in {"none", "configure"}
    /\ \E install \in Installs, created \in BOOLEAN :
          \E config \in {install[1]}, execPath \in {install[2]},
             loaded \in {LoadExistingSettings(settings)} :
             /\ call' = [op |-> "configure", ev |-> NoEvent,
                         config |-> config, execPath |-> execPath,
                         runs |-> IF call.op = "none" THEN 1
                                  ELSE call.runs + 1]
             /\ call'.runs <= MaxRuns
             /\ IF loaded.err # ""
                THEN /\ ret' = [err |-> "could not load existing settings"]
                     /\ UNCHANGED settings
                ELSE IF ~created
                THEN /\ ret' = [err |-> "could not save settings.json"]
                     /\ UNCHANGED settings
                ELSE /\ ret' = [err |-> ""]
                     /\ settings' =
                           [exists |-> TRUE, valid |-> TRUE,
                            hooks |-> ConfiguredHooks(
                                loaded.hooks,
                                BuildClaudeToGoCommand(config, execPath))]
    /\ UNCHANGED settingsFrame

NextSettings ==
    \/ CallCleanup
    \/ ConfigureHooksAtLocation

SpecSettings == InitSettings /\ [][NextSettings]_vars

(***************************************************************************)
(* monitor: Start and checkForNewEvents.  The decoder reads the file as it *)
(* is when it reads: scanp counts the lines it has consumed, err is the    *)
(* error json.Decoder keeps once reading a value failed, after which every *)
(* Decode returns it while More still sees the unread bytes.               *)
(***************************************************************************)
\* an entry cut short by its writer
PartialLine == [kind |-> "partial", ev |-> NoEvent]

MonitorLines == WriterLines \cup {BlankLine, PartialLine}

\* the lines that end at or before a file offset
RECURSIVE LinesBefore(_, _)
LinesBefore(lines, size) ==
    IF lines = <<>> \/ LineSize(Head(lines)) > size THEN 0
    ELSE 1 + LinesBefore(Tail(lines), size - LineSize(Head(lines)))

\* decoder.More: the first line after scanp that is not white space, 0 at
\* the end of the file
NextValue(lines, scanp) ==
    IF \E p \in (scanp + 1)..Len(lines) : lines[p].kind # "blank"
    THEN CHOOSE p \in (scanp + 1)..Len(lines) :
            /\ lines[p].kind # "blank"
            /\ \A q \in (scanp + 1)..(p - 1) : lines[q].kind = "blank"
    ELSE 0

monitorFrame == <<watcherFields, now, tickLocals, cancelled, statusFile,
                  result, tickErr, outputs, history, direct, tfile, outFiles,
                  responses, answered, settings>>

MonitorAppend ==
    /\ logExists
    /\ Len(log) < MaxLog
    /\ \E l \in MonitorLines : log' = Append(log, l)
    /\ UNCHANGED <<logExists, pc, monitor, monitorFrame>>

\* Start up to the loop
MonitorStart ==
    /\ pc = "new"
    /\ monitor' = [monitor EXCEPT
                      !.lastSize = IF logExists THEN FileSize(log) ELSE 0,
                      !.startLines = Len(log)]
    /\ pc' = "select"
    /\ UNCHANGED <<log, logExists, monitorFrame>>

MonitorCancel ==
    /\ pc = "select"
    /\ pc' = "stopped"
    /\ UNCHANGED <<log, logExists, monitor, monitorFrame>>

\* a tick: checkForNewEvents up to the decoding loop
MonitorTick ==
    /\ pc = "select"
    /\ IF ~logExists \/ FileSize(log) <= monitor.lastSize
       THEN UNCHANGED <<pc, monitor>>
       ELSE /\ monitor' = [monitor EXCEPT
                              !.currentSize = FileSize(log),
                              !.scanp = LinesBefore(log, monitor.lastSize),
                              !.err = ""]
            /\ pc' = "decode"
    /\ UNCHANGED <<log, logExists, monitorFrame>>

\* one evaluation of decoder.More and, when it holds, of the loop body
MonitorDecode ==
    /\ pc = "decode"
    /\ \E p \in {NextValue(log, monitor.scanp)} :
          IF p = 0
          THEN /\ monitor' = [monitor EXCEPT !.lastSize = monitor.currentSize]
               /\ pc' = "select"
          ELSE IF monitor.err # ""
          THEN UNCHANGED <<pc, monitor>>
          ELSE IF log[p].kind = "event"
          THEN /\ monitor' = [monitor EXCEPT
                                 !.displayed = Append(@, p), !.scanp = p]
               /\ pc' = pc
          ELSE /\ monitor' = [monitor EXCEPT
                                 !.err = IF log[p].kind = "partial"
                                            /\ p = Len(log)
                                         THEN "unexpected EOF"
                                         ELSE "invalid character",
                                 !.scanp = p - 1]
               /\ pc' = pc
    /\ UNCHANGED <<log, logExists, monitorFrame>>

NextMonitor ==
    \/ ExternalCreate
    \/ MonitorAppend
    \/ MonitorStart
    \/ MonitorCancel
    \/ MonitorTick
    \/ MonitorDecode

SpecMonitor == Init /\ [][NextMonitor]_vars

SpecMonitorLive == Init /\ [][NextMonitor]_vars /\ WF_vars(MonitorDecode)

(***************************************************************************)
(* Properties.                                                             *)
(***************************************************************************)
LoopPcs == {"select", "stats", "process"}
RunningPcs == {"baseline", "baselineStats"} \cup LoopPcs

\* C1: a tick that processes hands over exactly the log positions
\* lastEventCount+1 .. total (the count it read), each once and in order,
\* and then stores the size and the count it read -- also when the writer
\* appends while the tick runs.
C1_TickProcessesExactDelta ==
    [][handed' # handed =>
          /\ handed' = handed \o Range(lastEventCount + 1, total)
          /\ lastEventCount' = total
          /\ lastFileSize' = curSize]_vars

\* C2: a watcher started on an absent log takes the baseline 0/0, hands
\* over nothing while the log is absent or empty, and the first tick that
\* processes hands over the events the log holds.
C2_AbsentStartThenFirstGrowth ==
    [][/\ (startAbsent' /\ ~startAbsent) =>
              (lastFileSize' = 0 /\ lastEventCount' = 0)
       /\ (startAbsent /\ handed' # handed) =>
              (logExists /\ FileSize(log) > 0)
       /\ (startAbsent /\ handed = <<>> /\ handed' # <<>>) =>
              handed' = Range(1, NumEvents(log))]_vars

\* C3: no event that was in the log when the watcher started is ever handed
\* to processing.
C3_NoReplayOfBaselineEvents ==
    \A i \in 1..Len(handed) : handed[i] > startEvents

\* C4: a tick that finds the log absent, or its size equal to the stored
\* size, hands over nothing, writes nothing and leaves lastFileSize,
\* lastEventCount and lastProcessed as they were.
C4_IdleTickChangesNothing ==
    [][(now' # now /\ (~logExists \/ FileSize(log) = lastFileSize)) =>
          /\ UNCHANGED <<handed, written>>
          /\ UNCHANGED <<lastFileSize, lastEventCount, lastProcessed>>
          /\ pc' = "select"]_vars

C4_Witness ==
    /\ now > 0
    /\ pc = "select"
    /\ ~tickErr
    /\ logExists
    /\ FileSize(log) > 0
    /\ FileSize(log) = lastFileSize
    /\ handed = <<>>
    /\ lastProcessed = 0

\* C5: the poll loop is left only by the cancellation branch of the select,
\* which returns nil; a tick that ends in an error goes back to the select
\* with ServiceMode still running.
C5_LoopEndsOnlyOnCancel ==
    [][/\ (pc \in LoopPcs /\ pc' = "returned") =>
              (pc = "select" /\ cancelled /\ result' = "nil")
       /\ (tickErr' /\ (~tickErr \/ now' # now)) =>
              (pc' = "select" /\ result' = "none")]_vars

C5_Witness ==
    /\ pc = "returned"
    /\ result = "nil"
    /\ tickErr
    /\ now > 1

SucceedsAlone(i) ==
    ProcessEventAndSave(ParsedEvents(log)[i], i \notin call.saveFail, now).err
        = ""

ExpectedPaths(att) ==
    LET okIdx == SelectSeq(att, SucceedsAlone)
    IN  [j \in 1..Len(okIdx) |->
            generateFileName(ParsedEvents(log)[okIdx[j]], now)]

Min(a, b) == IF a < b THEN a ELSE b

\* C7: processLatest(log, n) attempts exactly the last n parsed events (all
\* when fewer exist) in log order, whatever the earlier events are, and
\* returns the paths of the ones that succeed, in that order.
C7_LatestAttemptsLastN ==
    (call.op = "latest" /\ ret.err = "") =>
        LET len == NumEvents(log)
            k == Min(call.n, len)
            att == Range(len - k + 1, len)
        IN  /\ ret.attempted = att
            /\ ret.paths = ExpectedPaths(att)

C7_Witness ==
    /\ call.op = "latest"
    /\ call.n = 2
    /\ log = <<EventLine(EvGone), EventLine(EvGood), EventLine(EvTool)>>
    /\ ret.attempted = <<2, 3>>
    /\ Len(ret.paths) = 2

\* C8: processAllFromLog on a readable log succeeds, attempts every parsed
\* event in log order (malformed and blank lines are not events), goes on
\* after an event that fails, and returns the paths of the events that
\* succeed, in log order.
C8_AllSkipsAndContinues ==
    (call.op = "all" /\ logExists /\ call.readOK) =>
        /\ ret.err = ""
        /\ ret.attempted = Range(1, NumEvents(log))
        /\ Len(ret.attempted) =
               Cardinality({i \in 1..Len(log) : log[i].kind = "event"})
        /\ ret.paths = ExpectedPaths(Range(1, NumEvents(log)))

C8_Witness ==
    /\ call.op = "all"
    /\ log = <<BadLine, EventLine(EvGone), EventLine(EvGood)>>
    /\ ret.err = ""
    /\ ret.attempted = <<1, 2>>
    /\ ret.paths = <<generateFileName(EvGood, now)>>

\* C9: extraction of an event whose session_id or hook_event_name is empty
\* fails, and fails before the transcript is touched.
C9_EmptyFieldsFailBeforeIO ==
    (call.op = "extract" /\
        (call.ev.session_id = EmptyStr \/ call.ev.hook_event_name = EmptyStr))
        => (ret.err # "" /\ ret.reads = 0)

\* C10: the ingestion path appends an event only if its session_id and
\* hook_event_name are both non-empty; for an event missing either the log
\* is unchanged, no response is emitted and an error is returned.
C10_IngestOnlyValidEvents ==
    [][/\ log' # log =>
              /\ call'.ev.session_id # EmptyStr
              /\ call'.ev.hook_event_name # EmptyStr
              /\ log' = Append(log, EventLine(call'.ev))
       /\ (call'.op = "hook" /\
             (call'.ev.session_id = EmptyStr
                \/ call'.ev.hook_event_name = EmptyStr)) =>
              /\ log' = log
              /\ logExists' = logExists
              /\ stdout' = stdout
              /\ ret'.err # ""]_vars

C10_Witness ==
    /\ call.op = "hook"
    /\ call.ev.session_id = SidA
    /\ call.ev.hook_event_name = EmptyStr
    /\ ret.err # ""
    /\ Len(log) = 2
    /\ stdout = 2

\* the kinds of the actions a message carries, and its info labels in order
ActionKinds(m) == {m.actions[i].Type : i \in 1..Len(m.actions)}
ActionLabels(m) == [i \in 1..Len(m.actions) |-> m.actions[i].Label]
Formatted == call.op \in {"process", "format"} /\ ret.err = ""

\* C11: every message the formatter produces satisfies: a completion
\* message carries no approve and no reject action, and an action_needed
\* message carries at least one approve and at least one reject action.
C11_ActionsFitMessageType ==
    Formatted =>
        /\ ret.message.type = "completion" =>
               ActionKinds(ret.message) \cap {"approve", "reject"} = {}
        /\ ret.message.type = "action_needed" =>
               {"approve", "reject"} \subseteq ActionKinds(ret.message)

C11_Witness ==
    /\ Formatted
    /\ ret.message.type = "action_needed"
    /\ ActionKinds(ret.message) = {"approve", "reject", "modify", "info"}

\* C16: extraction of a Stop event yields task status error whenever the
\* lower-cased final text contains error, failed, cannot or unable, also
\* when it contains a completion keyword too; in every other case it
\* yields completed.
C16_ErrorKeywordsTakePrecedence ==
    (/\ call.op = "process"
     /\ ToLower(call.ev.hook_event_name) = LowerStop
     /\ ret.err = "") =>
        ret.data.data.TaskStatus =
            IF \E k \in {KwError, KwFailed, KwCannot, KwUnable} :
                  Contains(ToLower(ret.data.data.FinalMessage), k)
            THEN StatusError
            ELSE StatusCompleted

C16_Witness ==
    /\ call.op = "process"
    /\ ToLower(call.ev.hook_event_name) = LowerStop
    /\ ret.err = ""
    /\ ret.data.data.TaskStatus = StatusError
    /\ Contains(ToLower(ret.data.data.FinalMessage), KwDone)
    /\ Contains(ToLower(ret.data.data.FinalMessage), KwFailed)

\* C19: for every notification message the formatter produces, the context
\* entries cwd, tool_name, action and session_id are present and equal the
\* event's working directory, the invoked tool's name, the normalized
\* action verb and the event's session id, whatever the tool input carries.
C19_NotificationContextCarriesEvent ==
    (/\ call.op = "process"
     /\ ret.err = ""
     /\ ret.message.type = "action_needed") =>
        /\ {"cwd", "tool_name", "action", "session_id"}
               \subseteq DOMAIN ret.message.context
        /\ ret.message.context["cwd"] = call.ev.cwd
        /\ ret.message.context["tool_name"] = ret.data.data.ToolName
        /\ ret.message.context["action"] =
               getActionForTool(ret.data.data.ToolName)
        /\ ret.message.context["session_id"] = call.ev.session_id

\* C20 as claimed: a Stop message carries exactly one info action when the
\* status is completed or any unrecognised status, exactly the two info
\* actions debug and view-log when it is error, none when it is cancelled.
C20_StopActionsByStatus ==
    (Formatted /\ ret.message.type = "completion") =>
        LET status == ret.message.context["task_status"]
        IN  CASE status = StatusError ->
                     /\ ActionLabels(ret.message) = <<"Debug", "View Log">>
                     /\ ActionKinds(ret.message) = {"info"}
              [] status = StatusCancelled -> ret.message.actions = <<>>
              [] OTHER ->
                     /\ Len(ret.message.actions) = 1
                     /\ ActionKinds(ret.message) = {"info"}

\* C20 amended: exactly one info action when the status is completed, the
\* two info actions debug and view-log when it is error, and no action
\* when it is cancelled or any unrecognised status.
C20_StopActionsOnlyCompletedOrError ==
    (Formatted /\ ret.message.type = "completion") =>
        LET status == ret.message.context["task_status"]
        IN  CASE status = StatusCompleted ->
                     /\ Len(ret.message.actions) = 1
                     /\ ActionKinds(ret.message) = {"info"}
              [] status = StatusError ->
                     /\ ActionLabels(ret.message) = <<"Debug", "View Log">>
                     /\ ActionKinds(ret.message) = {"info"}
              [] OTHER -> ret.message.actions = <<>>

C20_Witness ==
    /\ call.op = "format"
    /\ ret.err = ""
    /\ ret.message.type = "completion"
    /\ ret.message.context["task_status"] = StatusPaused
    /\ ret.message.actions = <<>>

\* the lines of the transcript that do not parse, and its messages
BadLineNumbers == {i \in 1..Len(tfile.lines) : tfile.lines[i].kind = "bad"}
TrMessages == SelectSeq(tfile.lines, LAMBDA l : l.kind = "msg")
TrQueryOps == {"parse", "lastAssistant", "lastToolUse", "chain", "context"}

\* C17: parsing a transcript is all-or-nothing: when a non-blank line is
\* malformed, the parse returns an error naming the 1-based number of the
\* (first) malformed line and no messages, and the last-assistant,
\* last-tool-use, chain and context queries fail with that error instead
\* of answering from the lines before it.
C17_TranscriptParseAllOrNothing ==
    (/\ call.op \in TrQueryOps
     /\ tfile.exists
     /\ BadLineNumbers # {}) =>
        /\ ret.err = "parse"
        /\ call.op = "parse" =>
               /\ ret.line \in BadLineNumbers
               /\ \A i \in BadLineNumbers : ret.line <= i
               /\ ret.messages = <<>>
        /\ call.op \in {"lastAssistant", "lastToolUse"} =>
               ret.idx = 0 /\ ret.msg = NoMessage
        /\ call.op = "chain" => ret.chain = <<>>
        /\ call.op = "context" => ret.messages = <<>>

C17_Witness ==
    /\ call.op = "lastAssistant"
    /\ Len(tfile.lines) = 3
    /\ tfile.lines[1].kind = "msg"
    /\ tfile.lines[1].type = "assistant"
    /\ tfile.lines[2].kind = "blank"
    /\ tfile.lines[3].kind = "bad"
    /\ ret.err = "parse"

\* C18: chain reconstruction from a start id returns the messages reached
\* by following parent ids, root first and start message last; it stops
\* without error at the first parent id that is empty or not in the
\* transcript, and returns the empty chain when the start id is not in
\* the transcript.
C18_ChainRootFirst ==
    (/\ call.op = "chain"
     /\ tfile.exists
     /\ BadLineNumbers = {}) =>
        LET present(u) ==
                \E i \in 1..Len(TrMessages) : TrMessages[i].uuid = u
            c == ret.chain
        IN  /\ ret.err = ""
            /\ ~present(call.start) => c = <<>>
            /\ present(call.start) =>
                  /\ c # <<>>
                  /\ c[Len(c)].uuid = call.start
                  /\ \A i \in 1..Len(c) :
                        \E j \in 1..Len(TrMessages) : TrMessages[j] = c[i]
                  /\ \A i \in 2..Len(c) : c[i].parent = c[i - 1].uuid
                  /\ c[1].parent = "" \/ ~present(c[1].parent)

C18_Witness ==
    /\ call.op = "chain"
    /\ ret.err = ""
    /\ Len(ret.chain) = 2
    /\ ret.chain[1].parent = GhostUuid
    /\ Len(TrMessages) = 3

\* the message files related to a queried id by the two-way prefix check
RelatedFiles(sessionID) ==
    {f \in outFiles : \/ HasPrefix(f.message.session_id, sessionID)
                      \/ HasPrefix(sessionID, f.message.session_id)}
Located == ret.err \notin {"panic", "no messenger file found"}

\* C12: respond fails with the invalid-action error when the located
\* message is action_needed and the requested kind is not among the kinds
\* of its declared actions; for a located message of any other type
\* exactly approve, reject and info are accepted.
C12_ActionMustBeDeclared ==
    (call.op = "respond" /\ Located) =>
        /\ (/\ ret.file.message.type = "action_needed"
            /\ call.action \notin ActionKinds(ret.file.message))
               => ret.err = "invalid action"
        /\ ret.file.message.type # "action_needed" =>
               (ret.err = "invalid action"
                    <=> call.action \notin {"approve", "reject", "info"})

C12_Witness ==
    /\ call.op = "respond"
    /\ call.action = "modify"
    /\ ret.err = "invalid action"
    /\ ret.file.message.type = "action_needed"
    /\ ret.file.message.context["tool_name"] = ToolBash

\* the response file that corresponds to a session: response-<first 8
\* characters of the session id, or all of a shorter id>
ResponseNameOf(sessionID) ==
    IF Len(sessionID) > SessionShortLen
    THEN SubSeq(sessionID, 1, SessionShortLen) ELSE sessionID

\* C13: listPending returns exactly the action_needed messages among the
\* notification-kind output files whose session has no corresponding
\* response file: none is left out, none with a response file and none of
\* another type is returned.
C13_PendingExactlyUnanswered ==
    call.op = "pending" =>
        /\ ret.err = ""
        /\ ret.pending =
              {f \in outFiles :
                  /\ f.path.kind = LowerNotif
                  /\ f.message.type = "action_needed"
                  /\ ~\E r \in responses :
                         r.name = ResponseNameOf(f.message.session_id)}

\* C14: for any queried id, whenever the output directory holds a message
\* file whose stored session id is a prefix of the queried id or has it as
\* a prefix, respond and sessionStatus locate such a file; they fail with
\* not-found only when there is no such file.
C14_LookupToleratesTruncatedAndFullIds ==
    call.op \in {"respond", "status"} =>
        /\ RelatedFiles(call.session) # {} =>
               (Located /\ ret.file \in RelatedFiles(call.session))
        /\ ret.err = "no messenger file found" =>
               RelatedFiles(call.session) = {}

\* C15: sessionStatus reports pending_response when the located message is
\* action_needed, completed when it is completion and active otherwise,
\* before and after a response is recorded; when a response file exists
\* for the session, the action it records is the last action.
C15_StatusFollowsMessageType ==
    (call.op = "status" /\ ret.err = "") =>
        /\ ret.Status =
              CASE ret.file.message.type = "action_needed" ->
                       "pending_response"
                [] ret.file.message.type = "completion" -> "completed"
                [] OTHER -> "active"
        /\ \A r \in responses :
              r.name = ResponseNameOf(call.session) =>
                  ret.LastAction = r.action

C15_Witness ==
    /\ call.op = "status"
    /\ ret.err = ""
    /\ ret.Status = "pending_response"
    /\ ret.LastAction = "approve"
    /\ \E r \in responses : r.name = ResponseNameOf(call.session)

\* the tool and the session a formatted notification was made for
NotifiedTool ==
    IF call.op = "process" THEN ret.data.data.ToolName
    ELSE call.data.data.ToolName
NotifiedSession ==
    IF call.op = "process" THEN call.ev.session_id ELSE call.data.session_id
ActionTypes(m) == [i \in 1..Len(m.actions) |-> m.actions[i].Type]

\* C21: the action list of every notification message is, in this order,
\* approve, reject, then one modify "review file" action when the tool is
\* write or edit, or one info "command info" action when it is bash (names
\* compared without regard to case), then the general info action; the
\* approve and reject commands name the event's session id.
C21_NotificationActionOrder ==
    (Formatted /\ ret.message.type = "action_needed") =>
        /\ ActionTypes(ret.message) =
               <<"approve", "reject">>
               \o (CASE ToLower(NotifiedTool) \in {LowerWrite, LowerEdit} ->
                            <<"modify">>
                     [] ToLower(NotifiedTool) = LowerBash -> <<"info">>
                     [] OTHER -> <<>>)
               \o <<"info">>
        /\ ActionLabels(ret.message) =
               <<"Approve", "Reject">>
               \o (CASE ToLower(NotifiedTool) \in {LowerWrite, LowerEdit} ->
                            <<"Review File">>
                     [] ToLower(NotifiedTool) = LowerBash ->
                            <<"Command Info">>
                     [] OTHER -> <<>>)
               \o <<"More Info">>
        /\ ret.message.actions[1].Command =
               Command("respond", NotifiedSession, "approve")
        /\ ret.message.actions[2].Command =
               Command("respond", NotifiedSession, "reject")

C21_Witness ==
    /\ call.op = "process"
    /\ ret.err = ""
    /\ ret.message.type = "action_needed"
    /\ ret.data.data.ToolName = ToolEditUpper
    /\ ActionTypes(ret.message) = <<"approve", "reject", "modify", "info">>
    /\ call.ev.session_id = SidLong

\* the lines of the transcript that are assistant messages with a tool_use
\* item, the last of them and the first tool_use item of that one
ToolUseLines ==
    {i \in 1..Len(tfile.lines) :
        /\ tfile.lines[i].type = "assistant"
        /\ tfile.lines[i].content = "list"
        /\ \E k \in 1..Len(tfile.lines[i].items) :
              tfile.lines[i].items[k].type = "tool_use"}
LastToolUseLine ==
    tfile.lines[CHOOSE i \in ToolUseLines : \A j \in ToolUseLines : j <= i]
FirstToolUseItem ==
    LastToolUseLine.items[
        CHOOSE k \in 1..Len(LastToolUseLine.items) :
            /\ LastToolUseLine.items[k].type = "tool_use"
            /\ \A j \in 1..(k - 1) :
                  LastToolUseLine.items[j].type # "tool_use"]
NotificationExtraction ==
    call.op = "process" /\ ToLower(call.ev.hook_event_name) = LowerNotif

\* C22: notification extraction takes the first tool_use item of the most
\* recent assistant message that contains one and maps its tool name,
\* compared without regard to case, to the action verb: write to
\* create_file, read to read_file, edit to edit_file, webfetch or fetch to
\* fetch_url, bash to execute_command, list or ls to list_directory, any
\* other name to use_tool; it fails when no assistant message contains a
\* tool_use item.
C22_NotificationTakesLastToolUse ==
    NotificationExtraction =>
        /\ ToolUseLines = {} => ret.err # ""
        /\ ToolUseLines # {} =>
              /\ ret.err = ""
              /\ ret.data.data.ToolName =
                     IF FirstToolUseItem.name = EmptyStr THEN ToolUnknown
                     ELSE FirstToolUseItem.name
              /\ ret.data.data.Action =
                     CASE ToLower(FirstToolUseItem.name) = LowerWrite ->
                              ActCreateFile
                       [] ToLower(FirstToolUseItem.name) = LowerRead ->
                              ActReadFile
                       [] ToLower(FirstToolUseItem.name) = LowerEdit ->
                              ActEditFile
                       [] ToLower(FirstToolUseItem.name)
                              \in {LowerWebfetch, LowerFetch} -> ActFetchUrl
                       [] ToLower(FirstToolUseItem.name) = LowerBash ->
                              ActExecuteCommand
                       [] ToLower(FirstToolUseItem.name)
                              \in {LowerList, LowerLs} -> ActListDirectory
                       [] OTHER -> ActUseTool

C22_Witness ==
    /\ NotificationExtraction
    /\ ret.err = ""
    /\ Len(tfile.lines) = 3
    /\ tfile.lines[3].type = "assistant"
    /\ ToolUseLines = {2}
    /\ FirstToolUseItem.name = ToolLs
    /\ LastToolUseLine.items[3].name = ToolEditUpper
    /\ ret.data.data.Action = ActListDirectory

\* position i of the log has been handed to ProcessEventAndSave
Handed(i) == \E k \in 1..Len(handed) : handed[k] = i

\* C23: with an append-only log and a watcher whose ticks keep occurring,
\* every event appended while the watcher polls (the log held fewer than i
\* events at some moment of the poll loop, and holds i events later) is
\* eventually handed to ProcessEventAndSave by some tick.
C23_AppendedEventEventuallyHanded ==
    \A i \in 1..MaxLog :
        []((pc \in LoopPcs /\ NumEvents(log) < i) =>
              [](NumEvents(log) >= i => <>Handed(i)))

\* C24: after any sequence of processAndSave and respond operations, every
\* action_needed notification file for which no respond has succeeded
\* since the file was written is returned by listPending, also a
\* notification written for a session after an earlier notification of the
\* same session was answered.
C24_UnansweredSinceWrittenIsPending ==
    call.op = "pending" =>
        \A f \in outFiles :
            (/\ f.path.kind = LowerNotif
             /\ f.message.type = "action_needed"
             /\ f.path \notin answered) =>
                (ret.err = "" /\ f \in ret.pending)

\* C25: a respond that returns an error leaves the response files as they
\* were: none is created and none is overwritten, whatever the action,
\* also one that passed validation.
C25_FailedRespondRecordsNothing ==
    [][(call'.op = "respond" /\ ret'.err # "") => responses' = responses]_vars

\* C26: chain reconstruction terminates for every parsed transcript and
\* every start id, also when the parent links form a cycle: a call of
\* GetMessageChain that has begun eventually returns.
C26_ChainReconstructionTerminates ==
    (call.op = "chain") ~> (call.op = "chain" /\ ret.done)

\* the hooks of a hook type in file order, each with its matcher's pattern
RECURSIVE HookPairs(_)
HookPairs(matchers) ==
    IF matchers = <<>> THEN <<>>
    ELSE [j \in 1..Len(Head(matchers).Hooks) |->
             <<Head(matchers).Matcher, Head(matchers).Hooks[j]>>]
         \o HookPairs(Tail(matchers))

IsForeignPair(p) == ~IsClaudeToGoHook(p[2].Command)

HooksOrNone(hooks, t) == IF t \in DOMAIN hooks THEN hooks[t] ELSE <<>>

\* C27: CleanupAllClaudeToGoHooks removes every ClaudeToGo hook from every
\* hook type and leaves every other hook, with its matcher and in its
\* relative order, in place; a hook type is deleted only when every hook
\* it contained was a ClaudeToGo hook.
C27_CleanupRemovesOnlyClaudeToGoHooks ==
    call.op = "cleanup" =>
        /\ DOMAIN ret.hooks \subseteq DOMAIN call.hooks
        /\ \A t \in DOMAIN call.hooks :
              /\ HookPairs(HooksOrNone(ret.hooks, t))
                    = SelectSeq(HookPairs(call.hooks[t]), IsForeignPair)
              /\ Len(HooksOrNone(ret.hooks, t))
                    = Cardinality({i \in 1..Len(call.hooks[t]) :
                          \E j \in 1..Len(call.hooks[t][i].Hooks) :
                              ~IsClaudeToGoHook(
                                  call.hooks[t][i].Hooks[j].Command)})
              /\ t \notin DOMAIN ret.hooks =>
                    \A i \in 1..Len(call.hooks[t]) :
                        \A j \in 1..Len(call.hooks[t][i].Hooks) :
                            IsClaudeToGoHook(
                                call.hooks[t][i].Hooks[j].Command)

\* a type of only ClaudeToGo hooks is deleted while Stop loses one matcher
\* and keeps, in another, the two foreign hooks around a removed one
C27_Witness ==
    /\ call.op = "cleanup"
    /\ "Notification" \in DOMAIN call.hooks \ DOMAIN ret.hooks
    /\ "Stop" \in DOMAIN ret.hooks
    /\ Len(call.hooks["Stop"]) = 2
    /\ ret.hooks["Stop"]
          = <<HookMatcher("Bash", <<HookConfig(CmdStatus, 5),
                                    HookConfig(CmdLint, 0)>>)>>

\* a hook is ClaudeToGo's when IsClaudeToGoHook says so or when it is the
\* command the last ConfigureHooksAtLocation built
IsOurHook(command) ==
    \/ IsClaudeToGoHook(command)
    \/ command = BuildClaudeToGoCommand(call.config, call.execPath)

IsOurPair(p) == IsOurHook(p[2].Command)

OurHooksIn(t) ==
    Len(SelectSeq(HookPairs(HooksOrNone(settings.hooks, t)), IsOurPair))

Configured == call.op = "configure" /\ ret.err = ""

\* C28: after ConfigureHooksAtLocation on any existing settings, each of
\* Stop and Notification contains exactly one ClaudeToGo hook, and running
\* it again with the same configuration leaves the hooks unchanged.
C28_ConfigureExactlyOneHookIdempotent ==
    /\ [](Configured => OurHooksIn("Stop") = 1 /\ OurHooksIn("Notification") = 1)
    /\ [][(/\ Configured
           /\ call'.op = "configure" /\ ret'.err = ""
           /\ call'.config = call.config
           /\ call'.execPath = call.execPath)
          => settings'.hooks = settings.hooks]_vars

Displayed == monitor.displayed

\* C29: the monitor displays every event appended to the log after it
\* started exactly once and in log order: the displayed positions are
\* strictly increasing, and whenever the monitor waits for a tick having
\* caught up with the file, they are exactly the events after the start.
C29_MonitorDisplaysEachNewEventOnce ==
    /\ \A i, j \in 1..Len(Displayed) :
          i < j => Displayed[i] < Displayed[j]
    /\ (pc = "select" /\ logExists /\ FileSize(log) = monitor.lastSize) =>
          {Displayed[i] : i \in 1..Len(Displayed)}
             = {p \in (monitor.startLines + 1)..Len(log) :
                   log[p].kind = "event"}

\* C30: every poll of the monitor terminates, also when the appended part
\* of the log holds a malformed or partially written entry: a poll that
\* reached its decoding loop returns to the ticker.
C30_EveryPollReturns == (pc = "decode") ~> (pc = "select")

====
